---------------------------- MODULE Spec2Model ----------------------------
(***************************************************************************)
(* Model of the woostproject installer (src/woostproject3.py): the step    *)
(* pipeline of InstallCommand.__call__ with the fork made by _hg, the      *)
(* feature version markers, and the port registry file.                    *)
(***************************************************************************)
EXTENDS Integers, Sequences, FiniteSets, TLC

(***************************************************************************)
(* Bounds of the model.                                                    *)
(***************************************************************************)
\* longest task list given with --tasks
MaxTaskArgs == 2
\* largest number of names given with --skip-tasks
MaxSkipped == 1
\* longest text of a marker file the model starts from
MaxMarkerLen == 2
\* number of keys ports are acquired for
MaxPortKeys == 3
\* number of distinct ports given explicitly
MaxExplicitPorts == 2
\* the runs of init_config on one command object
MaxInitRuns == 2
\* the pieces of a template
MaxPieces == 3
\* the expand_vars calls on a template and its outputs
MaxExpansions == 2
\* the lines of a string given to normalize_indent
MaxLines == 4
\* the whole chunks of the bundled tar file, and the bytes beyond them
MaxChunks == 2
MaxExtra == 2
\* the add_task / add_preliminary_task calls on one command
MaxAdds == 2

(***************************************************************************)
(* Generic helpers.                                                        *)
(***************************************************************************)
Range(s) == {s[i] : i \in 1..Len(s)}

SeqsUpTo(S, n) == UNION {[1..k -> S] : k \in 1..n}

(***************************************************************************)
(* The step pipeline: InstallCommand and UnbundleCommand.                  *)
(***************************************************************************)
VARIABLES
    preliminary_tasks,   \* InstallCommand.preliminary_tasks
    tasks,               \* InstallCommand.tasks (replaced by --tasks)
    cleanup_tasks,       \* InstallCommand.cleanup_tasks
    skipped_tasks,       \* InstallCommand.skipped_tasks (--skip-tasks)
    dedicated_user,      \* TRUE iff --dedicated-user names a user
    environment,         \* InstallCommand.environment (--environment)
    config,              \* the namespace fields the pipeline reads
    is_root,             \* the process was started with effective uid 0
    launcher_supported,  \* LauncherFeature.is_supported(): /usr/bin/X exists
    pc,                  \* per process: position inside __call__
    exc,                 \* per process: the exception that is propagating
    is_child_process,    \* per process: InstallCommand._is_child_process
    euid,                \* per process: effective user id
    egid,                \* effective group id, the same in both processes
    original_uid,        \* InstallCommand._original_uid
    hg_euid,             \* the local variable euid of _hg
    bundle_dir,          \* the directory source_installation exists
    log,                 \* history: the tasks started, in order
    cmd_failed           \* history: an external command returned non-zero

\* what a run is started with
setup_vars == <<preliminary_tasks, tasks, cleanup_tasks, skipped_tasks,
                dedicated_user, environment, is_root, launcher_supported>>

pipeline_vars == <<setup_vars, config, pc, exc, is_child_process, euid, egid,
                   original_uid, hg_euid, bundle_dir, log, cmd_failed>>

Procs == {"parent", "child"}

(***************************************************************************)
(* The feature registry: one version marker file per feature.              *)
(***************************************************************************)
VARIABLES
    config_dir,          \* Installer.config_dir (with features/) exists
    version_file,        \* per feature: the file Feature.version_file
    last_call            \* what the last feature operation did

feature_vars == <<config_dir, version_file, last_call>>

\* Installer.__init__: the features, in registration order
FeatureIds ==
    <<"core3", "pdfrenderer", "apache", "modwsgi", "modwsgiexpress",
      "letsencrypt", "mercurial", "launcher">>

Features == Range(FeatureIds)

\* Feature.installed_by_default: set by Core3Feature and PDFRendererFeature
installed_by_default(f) == f \in {"core3", "pdfrenderer"}

\* Feature.version: no feature class overrides it
FeatureVersion(f) == 1

\* a file: exists is FALSE when open() raises IOError
NoFile == [exists |-> FALSE, text |-> << >>]

File(text) == [exists |-> TRUE, text |-> text]

\* the characters marker files are built from
MarkerChars == {"-", "1", "x", "\n"}

MarkerTexts == {<< >>} \cup SeqsUpTo(MarkerChars, MaxMarkerLen)

Digits == <<"0", "1", "2", "3", "4", "5", "6", "7", "8", "9">>

IsDigit(c) == \E d \in 1..10 : Digits[d] = c

DigitValue(c) == (CHOOSE d \in 1..10 : Digits[d] = c) - 1

IsSpace(c) == c \in {" ", "\n", "\t"}

RECURSIVE LStrip(_)
LStrip(text) ==
    IF text # << >> /\ IsSpace(Head(text)) THEN LStrip(Tail(text)) ELSE text

RECURSIVE RStrip(_)
RStrip(text) ==
    IF text # << >> /\ IsSpace(text[Len(text)])
    THEN RStrip(SubSeq(text, 1, Len(text) - 1))
    ELSE text

RECURSIVE DigitsValue(_, _)
DigitsValue(text, acc) ==
    IF text = << >> THEN acc
    ELSE DigitsValue(Tail(text), 10 * acc + DigitValue(Head(text)))

\* Python int(str): surrounding whitespace is ignored, then an optional sign
\* and at least one decimal digit; anything else is a ValueError
ParseInt(text) ==
    LET t == RStrip(LStrip(text))
        signed == t # << >> /\ Head(t) \in {"-", "+"}
        body == IF signed THEN Tail(t) ELSE t
        valid == body # << >> /\ \A k \in 1..Len(body) : IsDigit(body[k])
    IN IF ~valid THEN [ok |-> FALSE, value |-> 0]
       ELSE [ok |-> TRUE,
             value |-> IF signed /\ Head(t) = "-"
                       THEN 0 - DigitsValue(body, 0)
                       ELSE DigitsValue(body, 0)]

RECURSIVE NatToStr(_)
NatToStr(n) ==
    IF n < 10 THEN <<Digits[n + 1]>>
    ELSE NatToStr(n \div 10) \o <<Digits[(n % 10) + 1]>>

\* Python str(int)
IntToStr(n) == IF n < 0 THEN <<"-">> \o NatToStr(0 - n) ELSE NatToStr(n)

\* Feature.get_installed_version
get_installed_version(file) ==
    IF ~file.exists THEN 0
    ELSE IF ParseInt(file.text).ok THEN ParseInt(file.text).value
    ELSE 0

\* the disabled marker is not told apart from an old version
needs_update_ignoring_disabled(installed_version, version) ==
    installed_version < version

\* a current feature is installed again
needs_update_when_current(installed_version, version) ==
    installed_version # -1 /\ installed_version <= version

\* the condition of Feature.update (the same as Feature.needs_update)
needs_update(installed_version, version) ==
    installed_version # -1 /\ installed_version < version

\* The state a run of feature operations works on: the marker files and the
\* record of the calls made.
FeatureState(dir, files) ==
    [config_dir |-> dir, version_file |-> files, updates |-> << >>,
     installs |-> << >>, writes |-> << >>, raised |-> FALSE]

\* Installer.require_config_dir: mkdir -p of the directories
require_config_dir(st) == [st EXCEPT !.config_dir = TRUE]

\* Feature.write_version: _sudo_write(version_file, str(self.version))
write_version(st, f) ==
    [st EXCEPT !.version_file[f] = File(IntToStr(FeatureVersion(f))),
               !.writes = Append(@, f)]

\* Feature.update; install_ok is FALSE when a command of Feature.install
\* fails, which raises out of update
update(st, f, install_ok) ==
    IF st.raised THEN st
    ELSE LET st1 == [require_config_dir(st) EXCEPT !.updates = Append(@, f)]
             installed_version == get_installed_version(st1.version_file[f])
         IN IF needs_update(installed_version, FeatureVersion(f))
            THEN LET st2 == [st1 EXCEPT !.installs = Append(@, f)]
                 IN IF install_ok THEN write_version(st2, f)
                    ELSE [st2 EXCEPT !.raised = TRUE]
            ELSE st1

\* Feature.disable: _sudo_write(version_file, "-1"); the write fails when
\* the directory of the marker files does not exist
disable(st, f) ==
    IF st.config_dir
    THEN [st EXCEPT !.version_file[f] = File(<<"-", "1">>),
                    !.writes = Append(@, f)]
    ELSE [st EXCEPT !.raised = TRUE]

\* InstallCommand.get_required_features: the ids yielded, in order
get_required_features(cfg, task_list, supported) ==
    <<"core3">>
    \o (IF cfg["deployment_scheme"] # "cherrypy"
        THEN <<"apache">>
             \o (IF cfg["deployment_scheme"] = "mod_wsgi" THEN <<"modwsgi">>
                 ELSE IF cfg["deployment_scheme"] = "mod_wsgi_express"
                 THEN <<"modwsgiexpress">>
                 ELSE << >>)
        ELSE << >>)
    \o (IF cfg["lets_encrypt"] = "True" THEN <<"letsencrypt">> ELSE << >>)
    \o (IF "install_libs" \in Range(task_list)
           \/ "create_mercurial_repository" \in Range(task_list)
        THEN <<"mercurial">> ELSE << >>)
    \o (IF cfg["launcher"] = "yes"
           \/ (cfg["launcher"] = "auto" /\ supported)
        THEN <<"launcher">> ELSE << >>)

\* The members of the set updated_features are Feature objects, while the
\* second loop of update_features looks a feature id (a str) up in it.
FeatureObject(f) == <<"Feature", f>>

FeatureIdStr(f) == <<"str", f>>

\* `feature_id not in updated_features`
NotUpdatedYet(feature_id, updated_features) ==
    FeatureIdStr(feature_id) \notin updated_features

\* first loop of update_features, from position k of the registry
RECURSIVE UpdateDefaults(_, _, _, _)
UpdateDefaults(st, updated_features, k, bad) ==
    IF k > Len(FeatureIds) THEN [st |-> st, updated |-> updated_features]
    ELSE LET f == FeatureIds[k]
         IN IF installed_by_default(f) /\ ~st.raised
            THEN UpdateDefaults(update(st, f, f # bad),
                                updated_features \cup {FeatureObject(f)},
                                k + 1, bad)
            ELSE UpdateDefaults(st, updated_features, k + 1, bad)

\* second loop of update_features, from position k of the required ids
RECURSIVE UpdateRequired(_, _, _, _, _)
UpdateRequired(st, updated_features, required, k, bad) ==
    IF k > Len(required) \/ st.raised THEN st
    ELSE LET f == required[k]
         IN IF NotUpdatedYet(f, updated_features)
            THEN UpdateRequired(update(st, f, f # bad),
                                updated_features \cup {FeatureObject(f)},
                                required, k + 1, bad)
            ELSE UpdateRequired(st, updated_features, required, k + 1, bad)

\* InstallCommand.update_features; bad is the feature whose install fails
update_features(st, required, bad) ==
    LET first == UpdateDefaults(st, {}, 1, bad)
    IN UpdateRequired(first.st, first.updated, required, 1, bad)

\* the record kept of the last feature operation
CallRecord(op, f, before, st, required) ==
    [op |-> op, feature |-> f, before |-> before, updates |-> st.updates,
     installs |-> st.installs, writes |-> st.writes, raised |-> st.raised,
     required |-> required]

NoCall == CallRecord("none", "none", NoFile, FeatureState(FALSE, << >>), << >>)

(***************************************************************************)
(* The port registry: the file Installer.ports_file, one "<key> <port>"    *)
(* line per entry.                                                         *)
(***************************************************************************)
VARIABLES
    ports_file,          \* the registry file: exists, and its lines
    last_port            \* what the last acquire_port call did

port_vars == <<ports_file, last_port>>

\* Installer.first_automatic_port
first_automatic_port == 14000

\* str.split(): the maximal runs of non-whitespace characters
RECURSIVE SplitFrom(_, _, _)
SplitFrom(text, word, words) ==
    IF text = << >>
    THEN IF word = << >> THEN words ELSE Append(words, word)
    ELSE IF IsSpace(Head(text))
    THEN SplitFrom(Tail(text), << >>,
                   IF word = << >> THEN words ELSE Append(words, word))
    ELSE SplitFrom(Tail(text), Append(word, Head(text)), words)

Split(text) == SplitFrom(text, << >>, << >>)

\* "%s %d\n" % (key, port), without the newline that ends the line
FormatEntry(key, port) == key \o <<" ">> \o IntToStr(port)

\* the for loop of acquire_port over the lines from position k on, with the
\* value file_port has so far: the key is found, the lines are exhausted, or
\* a line does not unpack into a key and an integer (ValueError)
RECURSIVE ScanPorts(_, _, _, _)
ScanPorts(lines, key, k, file_port) ==
    IF k > Len(lines) THEN [status |-> "absent", file_port |-> file_port]
    ELSE LET line == RStrip(LStrip(lines[k]))
             words == Split(line)
         IN IF line = << >> THEN ScanPorts(lines, key, k + 1, file_port)
            ELSE IF Len(words) # 2 \/ ~ParseInt(words[2]).ok
            THEN [status |-> "error", file_port |-> file_port]
            ELSE IF words[1] = key
            THEN [status |-> "found", file_port |-> ParseInt(words[2]).value]
            ELSE ScanPorts(lines, key, k + 1, ParseInt(words[2]).value)

\* the mode the file is opened with for writing always truncates
WriteModeTruncating(exists) == "w"

\* write_mode of acquire_port: "w" when open() failed because the file does
\* not exist, "a" when the file was read to its end
WriteMode(exists) == IF exists THEN "a" ELSE "w"

\* Installer.acquire_port(key, port); port is << >> when not given (None)
\* and <<q>> when the port q is given
acquire_port(file, key, port) ==
    LET scan == IF file.exists
                THEN ScanPorts(file.lines, key, 1, first_automatic_port)
                ELSE [status |-> "absent", file_port |-> first_automatic_port]
        new_port == IF port = << >> THEN scan.file_port + 1 ELSE port[1]
        entry == FormatEntry(key, new_port)
    IN CASE scan.status = "found" ->
              [file |-> file, result |-> scan.file_port, raised |-> FALSE]
         [] scan.status = "error" ->
              [file |-> file, result |-> 0, raised |-> TRUE]
         [] OTHER ->
              [file |-> [exists |-> TRUE,
                         lines |-> IF WriteMode(file.exists) = "a"
                                   THEN Append(file.lines, entry)
                                   ELSE <<entry>>],
               result |-> new_port, raised |-> FALSE]

\* the record kept of the last acquire_port call
NoPortCall ==
    [key |-> << >>, port |-> << >>, result |-> 0, raised |-> FALSE,
     before |-> [exists |-> FALSE, lines |-> << >>]]

\* the port registry is not in use
PortsIdle ==
    /\ ports_file = [exists |-> FALSE, lines |-> << >>]
    /\ last_port = NoPortCall

(***************************************************************************)
(* The namespace fields of InstallCommand that the pipeline reads, and the *)
(* environment presets.                                                    *)
(***************************************************************************)
\* InstallCommand.environments
environments ==
    [development |->
        [deployment_scheme |-> "mod_rewrite",
         zodb_deployment_scheme |-> "zeo",
         zeo_pack |-> "False",
         purge_temp_files |-> "False",
         backup |-> "False",
         cherrypy_env_global_config |-> "[]"],
     production |->
        [deployment_scheme |-> "mod_wsgi_express",
         zodb_deployment_scheme |-> "zeo_service",
         zeo_pack |-> "True",
         purge_temp_files |-> "True",
         backup |-> "True",
         cherrypy_env_global_config |->
            "[autoreload_on: False, log_to_screen: False]"]]

\* the class level defaults of the fields
DefaultConfig ==
    [deployment_scheme |-> "None", zodb_deployment_scheme |-> "None",
     zeo_pack |-> "None", purge_temp_files |-> "None", backup |-> "None",
     cherrypy_env_global_config |-> "None",
     lets_encrypt |-> "False", launcher |-> "auto"]

\* the values given on the command line
ConfigChoices ==
    {[DefaultConfig EXCEPT !["deployment_scheme"] = d] :
        d \in {"None", "cherrypy"}}

\* the presets are assigned whether or not the field is None
apply_environment_presets_overwriting(cfg, env) ==
    [field \in DOMAIN cfg |->
        IF field \in DOMAIN environments[env] THEN environments[env][field]
        ELSE cfg[field]]

\* InstallCommand.apply_environment_presets
apply_environment_presets(cfg, env) ==
    [field \in DOMAIN cfg |->
        IF field \in DOMAIN environments[env] /\ cfg[field] = "None"
        THEN environments[env][field]
        ELSE cfg[field]]

(***************************************************************************)
(* InstallCommand.init_config: the derivation of the namespace.  The       *)
(* fields followed are one or more of each kind of assignment the method   *)
(* makes: guarded by `if not self.x`, unconditional, in-place append,      *)
(* setdefault, list replacement, port acquisition, and the three exits.    *)
(***************************************************************************)
VARIABLES
    ns,                  \* the fields of the command object
    environ,             \* what init_config reads outside the object
    last_init            \* what the last init_config run did

config_vars == <<ns, environ, last_init>>

\* `not self.x` for a string field: None or the empty string
Unset(v) == v \in {"None", ""}

\* str.lower() on the website names of the model
Lower(name) == IF name = "B" THEN "b" ELSE name

\* os.path.join(a, b) for a relative b
Join(a, b) == a \o "/" \o b

\* self.x = value
Put(n, field, value) == [n EXCEPT ![field] = value]

\* if not self.x: self.x = value
Derive(n, field, value) ==
    IF Unset(n[field]) THEN Put(n, field, value) ELSE n

\* InstallCommand.empty_project_folders (class attribute)
empty_project_folders ==
    << <<"data">>, <<"static", "images">>, <<"image-cache">>,
       <<"views", "resources">>, <<"upload">>, <<"sessions">> >>

\* InstallCommand.launcher_tabs (class attribute): key, script, condition
launcher_tabs ==
    << <<"zeo", "zeo_script", "zodb_is_zeo">>,
       <<"http", "http_script", "not_mod_wsgi">>,
       <<"cache", "cache_script", "cache_and_not_mod_wsgi">>,
       <<"cocktail", "cocktail_script", "always">>,
       <<"woost", "woost_script", "always">>,
       <<"site", "site_script", "always">>,
       <<"ipython", "ipython_script", "always">> >>

\* condition(self) for the lambdas of launcher_tabs
TabCondition(condition, n) ==
    CASE condition = "zodb_is_zeo" -> n.zodb_deployment_scheme = "zeo"
      [] condition = "not_mod_wsgi" ->
            n.deployment_scheme \notin {"mod_wsgi", "mod_wsgi_express"}
      [] condition = "cache_and_not_mod_wsgi" ->
            /\ n.cache_enabled
            /\ n.deployment_scheme \notin {"mod_wsgi", "mod_wsgi_express"}
      [] OTHER -> TRUE

\* the keys init_config gives a default in terminal_profile_settings
SettingKeys ==
    {"visible-name", "title", "title-mode", "use-custom-command",
     "custom-command"}

\* the key is not in the dict
NoSetting == "<absent>"

\* dict.setdefault(key, value)
SetDefault(settings, key, value) ==
    IF settings[key] = NoSetting THEN [settings EXCEPT ![key] = value]
    ELSE settings

\* the class level defaults of the fields followed
DefaultNamespace ==
    [website |-> "None", alias |-> "None", flat_website_alias |-> "None",
     dedicated_user |-> "None", workspace |-> "None", root_host |-> "None",
     vhost_name |-> "None", root_dir |-> "None", hostname |-> "None",
     deployment_scheme |-> "None", zodb_deployment_scheme |-> "None",
     cache_enabled |-> FALSE,
     app_server_hostname |-> "None",
     port |-> 0, zeo_port |-> 0, cache_server_port |-> 0,
     app_server_host |-> [hostname |-> "None", port |-> 0],
     empty_project_folders |-> empty_project_folders,
     zeo_service_name |-> "None", apache_vhost_file |-> "None",
     terminal_profile |-> "None", launcher_tab_script |-> "None",
     terminal_profile_settings |-> [key \in SettingKeys |-> NoSetting],
     launcher_tabs |-> launcher_tabs,
     launcher_dir |-> "None"]

\* what the environment holds while the command runs
EnvironChoices ==
    [WORKSPACE : {"None", "/e"},
     WOOST_ROOT_HOST : {"None"},
     \* Installer.get_package_version("apache2"): << >> is None
     apache_version : {<< >>, <<"2", "4", "41">>, <<"2", "2", "22">>}]

\* the outcome of a run of init_config
InitResult(n, file, raised) == [ns |-> n, file |-> file, raised |-> raised]

\* website.lower().replace(".", "_"); the names of the model have no dots
FlatName(name) == Lower(name)

\* alias + "-web", alias + "-db", alias + "-cache" as the characters of the
\* registry key; the aliases of the model are one character long
PortKey(alias, suffix) == <<alias, "-">> \o suffix

\* `if not self.port: self.port = self.installer.acquire_port(key)`
AcquireIfUnset(current, file, key) ==
    IF current = 0 THEN acquire_port(file, key, << >>)
    ELSE [file |-> file, result |-> current, raised |-> FALSE]

\* 2350-2351: if not self.alias: self.alias = self.website
derive_alias(n) == Derive(n, "alias", n.website)

\* 2354: self.flat_website_alias = self.alias.lower().replace(".", "_")
derive_flat_website_alias(n) ==
    Put(n, "flat_website_alias", FlatName(n.alias))

\* 2356-2360: the workspace of the dedicated user, or $WORKSPACE
derive_workspace(n, env) ==
    IF n.workspace # "None" THEN n
    ELSE IF ~Unset(n.dedicated_user)
    THEN Put(n, "workspace", "/home/" \o n.dedicated_user)
    ELSE Put(n, "workspace", env.WORKSPACE)

\* 2369-2373: root_host from $WOOST_ROOT_HOST or default_root_host
derive_root_host(n, env) ==
    Derive(n, "root_host",
           IF Unset(env.WOOST_ROOT_HOST) THEN "localhost"
           ELSE env.WOOST_ROOT_HOST)

\* 2391-2392
derive_vhost_name(n) == Derive(n, "vhost_name", n.flat_website_alias)

\* 2397-2401
derive_root_dir(n) ==
    Derive(n, "root_dir",
           Join(n.workspace,
                IF ~Unset(n.dedicated_user) THEN "src" ELSE Lower(n.alias)))

\* 2431-2432
derive_hostname(n) ==
    Derive(n, "hostname", n.flat_website_alias \o "." \o n.root_host)

\* 2434-2437
derive_app_server_hostname(n) ==
    Put(n, "app_server_hostname",
        IF n.deployment_scheme = "cherrypy" THEN n.hostname ELSE "127.0.0.1")

\* 2450-2453: "%s:%d" % (app_server_hostname, port), kept as the pair
derive_app_server_host(n) ==
    Put(n, "app_server_host",
        [hostname |-> n.app_server_hostname, port |-> n.port])

\* 2520: self.empty_project_folders.append(["static", "resources"])
derive_empty_project_folders(n) ==
    Put(n, "empty_project_folders",
        Append(n.empty_project_folders, <<"static", "resources">>))

\* 2523
derive_zeo_service_name(n) == Put(n, "zeo_service_name", n.alias \o "-zeo")

\* 2537-2540
derive_apache_vhost_file(n) ==
    Put(n, "apache_vhost_file",
        "/etc/apache2/sites-available/" \o n.vhost_name)

\* 2545: self.apache_vhost_file += ".conf"
append_conf(n) == Put(n, "apache_vhost_file", n.apache_vhost_file \o ".conf")

\* 2645-2646
derive_terminal_profile(n) == Derive(n, "terminal_profile", n.alias)

\* 2655-2660
derive_launcher_tab_script(n) ==
    Derive(n, "launcher_tab_script", Join(n.root_dir, "launcher/tab"))

\* 2662-2684: the copy of terminal_profile_settings and its setdefault calls
derive_terminal_profile_settings(n) ==
    Put(n, "terminal_profile_settings",
        SetDefault(
          SetDefault(
            SetDefault(
              SetDefault(
                SetDefault(n.terminal_profile_settings,
                           "visible-name", n.alias),
                "title", n.alias),
              "title-mode", "ignore"),
            "use-custom-command", "True"),
          "custom-command",
          "/bin/bash --init-file " \o n.launcher_tab_script))

\* the (key, cmd) pairs of the tabs whose condition holds
KeptTabs(tabs, n) ==
    LET kept == SelectSeq(tabs, LAMBDA tab : TabCondition(tab[3], n))
    IN [k \in 1..Len(kept) |-> <<kept[k][1], kept[k][2]>>]

\* 2686-2690
derive_launcher_tabs(n) == Put(n, "launcher_tabs", KeptTabs(n.launcher_tabs, n))

\* 2700-2704
derive_launcher_dir(n) == Derive(n, "launcher_dir", Join(n.root_dir, "launcher"))

\* init_config from the terminal profile to its end
init_config_launcher(n, file) ==
    \* `for key, cmd, condition in self.launcher_tabs` unpacks 3 items
    IF \E k \in 1..Len(n.launcher_tabs) : Len(n.launcher_tabs[k]) # 3
    THEN InitResult(
           derive_terminal_profile_settings(
             derive_launcher_tab_script(derive_terminal_profile(n))),
           file, "ValueError")
    ELSE InitResult(
           derive_launcher_dir(
             derive_launcher_tabs(
               derive_terminal_profile_settings(
                 derive_launcher_tab_script(derive_terminal_profile(n))))),
           file, "none")

\* init_config from the Apache version to its end
init_config_apache(n, env, file) ==
    \* self.apache_version[:2] on None
    IF env.apache_version = << >> THEN InitResult(n, file, "TypeError")
    ELSE IF SubSeq(env.apache_version, 1, 2) = <<"2", "4">>
    THEN init_config_launcher(append_conf(n), file)
    ELSE IF n.deployment_scheme # "cherrypy"
    THEN InitResult(n, file, "SystemExit")
    ELSE init_config_launcher(n, file)

\* init_config from empty_project_folders to the Apache configuration
init_config_services(n, env, file) ==
    init_config_apache(
      derive_apache_vhost_file(
        derive_zeo_service_name(derive_empty_project_folders(n))),
      env, file)

\* 2439-2448: "Acquire or restore ports"; a registry line that does not
\* parse makes acquire_port raise
init_config_ports(n, env, file) ==
    LET r1 == AcquireIfUnset(n.port, file, PortKey(n.alias, <<"w", "e", "b">>))
        r2 == AcquireIfUnset(n.zeo_port, r1.file, PortKey(n.alias, <<"d", "b">>))
        r3 == IF n.cache_enabled
              THEN AcquireIfUnset(n.cache_server_port, r2.file,
                                  PortKey(n.alias, <<"c", "a", "c", "h", "e">>))
              ELSE [file |-> r2.file, result |-> n.cache_server_port,
                    raised |-> FALSE]
    IN IF r1.raised THEN InitResult(n, r1.file, "ValueError")
       ELSE IF r2.raised
       THEN InitResult(Put(n, "port", r1.result), r2.file, "ValueError")
       ELSE IF r3.raised
       THEN InitResult([n EXCEPT !["port"] = r1.result,
                                 !["zeo_port"] = r2.result],
                       r3.file, "ValueError")
       ELSE init_config_services(
              derive_app_server_host(
                [n EXCEPT !["port"] = r1.result, !["zeo_port"] = r2.result,
                          !["cache_server_port"] = r3.result]),
              env, r3.file)

\* init_config from root_host to app_server_hostname
init_config_hosts(n, env, file) ==
    init_config_ports(
      derive_app_server_hostname(
        derive_hostname(
          derive_root_dir(derive_vhost_name(derive_root_host(n, env))))),
      env, file)

\* 2362-2367: sys.exit(1) when no workspace was found
\* the test of `if not self.workspace:` is left out
init_config_workspace_no_exit(n, was_none, env, file) ==
    init_config_hosts(n, env, file)

init_config_workspace(n, was_none, env, file) ==
    IF was_none /\ Unset(n.workspace) THEN InitResult(n, file, "SystemExit")
    ELSE init_config_hosts(n, env, file)

\* InstallCommand.init_config
init_config(n, env, file) ==
    init_config_workspace(
      derive_workspace(derive_flat_website_alias(derive_alias(n)), env),
      n.workspace = "None", env, file)

\* the record kept of the last init_config run
NoInit ==
    [runs |-> 0, raised |-> "none", before |-> DefaultNamespace,
     file_before |-> [exists |-> FALSE, lines |-> << >>]]

\* no command object is being configured
ConfigIdle ==
    /\ ns = DefaultNamespace
    /\ environ = [WORKSPACE |-> "None", WOOST_ROOT_HOST |-> "None",
                  apache_version |-> << >>]
    /\ last_init = NoInit

(***************************************************************************)
(* Template expansion: InstallCommand.expand_vars and _inject_var.  Texts  *)
(* are sequences of characters.                                            *)
(***************************************************************************)
VARIABLES
    template,            \* the text given to the first expand_vars call
    fields,              \* the attributes of the command the tokens name
    expansion            \* what the last expand_vars call did

template_vars == <<template, fields, expansion>>

\* "--SETUP-", the literal head of var_reg_expr
MarkerHead == <<"-", "-", "S", "E", "T", "U", "P", "-">>

\* "--", the literal tail of var_reg_expr
MarkerTail == <<"-", "-">>

\* [A-Z0-9_] on the characters of the model
IsKeyChar(c) == c \in {"A", "B", "E", "N", "P", "S", "T", "U"}

\* str.lower() on one character
LowerChar(c) ==
    CASE c = "A" -> "a" [] c = "B" -> "b" [] c = "E" -> "e" [] c = "N" -> "n"
      [] c = "P" -> "p" [] c = "S" -> "s" [] c = "T" -> "t" [] c = "U" -> "u"
      [] OTHER -> c

\* the text has the word at position i
HasAt(text, i, word) ==
    /\ i + Len(word) - 1 <= Len(text)
    /\ SubSeq(text, i, i + Len(word) - 1) = word

\* the end of the longest run of key characters that starts at position i
RECURSIVE KeyEnd(_, _)
KeyEnd(text, i) ==
    IF i <= Len(text) /\ IsKeyChar(text[i]) THEN KeyEnd(text, i + 1) ELSE i

\* var_reg_expr matched at position i: the position behind the match, or 0.
\* The key is the longest run of key characters, which must be followed by
\* the tail: a shorter key would end before a key character.
MatchEnd(text, i) ==
    IF ~HasAt(text, i, MarkerHead) THEN 0
    ELSE LET k == KeyEnd(text, i + Len(MarkerHead))
         IN IF k > i + Len(MarkerHead) /\ HasAt(text, k, MarkerTail)
            THEN k + Len(MarkerTail)
            ELSE 0

\* match.group("key") of the match from i to before j
MatchKey(text, i, j) ==
    SubSeq(text, i + Len(MarkerHead), j - Len(MarkerTail) - 1)

\* the attribute is not defined (getattr raises AttributeError)
Missing == [kind |-> "missing", text |-> << >>]

\* the attribute is None
NoneValue == [kind |-> "None", text |-> << >>]

\* the attribute is the string
Str(text) == [kind |-> "str", text |-> text]

\* getattr(self, key) for match.group("key").lower()
GetAttr(attrs, key) ==
    LET name == [k \in 1..Len(key) |-> LowerChar(key[k])]
    IN IF name \in DOMAIN attrs THEN attrs[name] ELSE Missing

\* str(value)
StrOf(value) ==
    IF value.kind = "None" THEN <<"N", "o", "n", "e">> ELSE value.text

\* the outcome of an expand_vars call
Expanded(text) == [raised |-> FALSE, text |-> text, token |-> << >>]

\* KeyError("Undefined variable: %s" % match.group(0))
UndefinedVariable(token) == [raised |-> TRUE, text |-> << >>, token |-> token]

\* var_reg_expr.sub(self._inject_var, string) from position i on, with the
\* output built so far: the matches are found from left to right in the
\* input, and a replacement is not scanned again
RECURSIVE SubFrom(_, _, _, _)
SubFrom(attrs, text, i, out) ==
    IF i > Len(text) THEN Expanded(out)
    ELSE LET j == MatchEnd(text, i)
         IN IF j = 0 THEN SubFrom(attrs, text, i + 1, Append(out, text[i]))
            ELSE LET value == GetAttr(attrs, MatchKey(text, i, j))
                 IN IF value.kind = "missing"
                    THEN UndefinedVariable(SubSeq(text, i, j - 1))
                    ELSE SubFrom(attrs, text, j, out \o StrOf(value))

\* InstallCommand.expand_vars
expand_vars(attrs, string) == SubFrom(attrs, string, 1, << >>)

\* the record kept of the last expand_vars call
NoExpansion ==
    [calls |-> 0, input |-> << >>, raised |-> FALSE, text |-> << >>,
     token |-> << >>]

\* no template is being expanded
TemplatesIdle ==
    /\ template = << >>
    /\ fields = [name \in {} |-> Missing]
    /\ expansion = NoExpansion

(***************************************************************************)
(* Installer.normalize_indent.                                             *)
(***************************************************************************)
VARIABLES
    indent_input,        \* the string given to normalize_indent
    indent_result        \* whether it was called, and what it returned

indent_vars == <<indent_input, indent_result>>

\* string.split("\n") from position i on, with the line read so far
RECURSIVE SplitLinesFrom(_, _, _)
SplitLinesFrom(string, i, line) ==
    IF i > Len(string) THEN <<line>>
    ELSE IF string[i] = "\n"
    THEN <<line>> \o SplitLinesFrom(string, i + 1, << >>)
    ELSE SplitLinesFrom(string, i + 1, Append(line, string[i]))

SplitLines(string) == SplitLinesFrom(string, 1, << >>)

\* "\n".join(lines)
RECURSIVE JoinLines(_)
JoinLines(lines) ==
    IF lines = << >> THEN << >>
    ELSE IF Len(lines) = 1 THEN lines[1]
    ELSE lines[1] \o <<"\n">> \o JoinLines(Tail(lines))

\* line.startswith(prefix)
StartsWith(line, prefix) ==
    /\ Len(prefix) <= Len(line)
    /\ SubSeq(line, 1, Len(prefix)) = prefix

\* Python's None for the local variable indent
NoIndent == <<"None">>

\* the loop of normalize_indent from line k on, with its local variables
RECURSIVE NormalizeFrom(_, _, _, _, _)
NormalizeFrom(lines, k, norm_lines, indent, found_content) ==
    IF k > Len(lines) THEN norm_lines
    ELSE IF ~found_content /\ LStrip(RStrip(lines[k])) = << >>
    THEN NormalizeFrom(lines, k + 1, norm_lines, indent, found_content)
    ELSE LET line == RStrip(lines[k])
             norm_line == LStrip(line)
         IN IF indent = NoIndent
            THEN NormalizeFrom(lines, k + 1, Append(norm_lines, norm_line),
                               IF norm_line # line
                               THEN SubSeq(line, 1, Len(line) - Len(norm_line))
                               ELSE indent,
                               TRUE)
            ELSE IF StartsWith(line, indent)
            THEN NormalizeFrom(lines, k + 1,
                               Append(norm_lines,
                                      SubSeq(line, Len(indent) + 1, Len(line))),
                               indent, TRUE)
            ELSE NormalizeFrom(lines, k + 1, Append(norm_lines, line),
                               indent, TRUE)

\* Installer.normalize_indent
normalize_indent(string) ==
    JoinLines(NormalizeFrom(SplitLines(string), 1, << >>, NoIndent, FALSE))

\* normalize_indent is not in use
IndentIdle ==
    /\ indent_input = << >>
    /\ indent_result = [called |-> FALSE, string |-> << >>]

(***************************************************************************)
(* The bundle codec: the base64 loop of BundleCommand.__call__ and         *)
(* UnbundleCommand.extract_bundle_data.  A byte is a number in 0..255, a   *)
(* base64 character is its index 0..63 in the base64 alphabet, 64 is "=".  *)
(***************************************************************************)
VARIABLES
    bundle_tar,          \* the bytes of the tar file that is bundled
    BUNDLE_DATA,         \* the characters written between the triple quotes
    website_tar          \* the file extract_bundle_data writes

codec_vars == <<bundle_tar, BUNDLE_DATA, website_tar>>

\* UnbundleCommand.chunk_size
UnbundleChunkSize == 10920

\* BundleCommand.chunk_size is one byte more than the bytes of a slice
BundleChunkSizeOffByOne == (3 * (UnbundleChunkSize \div 4)) + 1

\* BundleCommand.chunk_size
BundleChunkSize == 8190

\* the index of "=" after the 64 characters of the alphabet
Pad == 64

\* base64.b64encode(chunk): 3 bytes give 4 characters, the last group is
\* filled with zero bits and padded with "="
b64encode(chunk) ==
    [j \in 1..(4 * ((Len(chunk) + 2) \div 3)) |->
        LET q == (j - 1) \div 4
            r == (j - 1) % 4
            byte(k) == IF 3 * q + k <= Len(chunk) THEN chunk[3 * q + k] ELSE 0
        IN IF \/ (r = 2 /\ 3 * q + 2 > Len(chunk))
              \/ (r = 3 /\ 3 * q + 3 > Len(chunk))
           THEN Pad
           ELSE CASE r = 0 -> byte(1) \div 4
                  [] r = 1 -> ((byte(1) % 4) * 16) + (byte(2) \div 16)
                  [] r = 2 -> ((byte(2) % 16) * 4) + (byte(3) \div 64)
                  [] OTHER -> byte(3) % 64]

\* the positions of "=" in the data
PadPositions(data) == {i \in 1..Len(data) : data[i] = Pad}

\* the number of alphabet characters before position p
ValidBefore(pads, p) == p - 1 - Cardinality({x \in pads : x < p})

\* the position at which binascii.a2b_base64 stops reading: the first "="
\* that completes the padding of a group of 2 or 3 characters; 0 if none
StopPosition(pads) ==
    LET stops == {p \in pads :
                    /\ (ValidBefore(pads, p) % 4) >= 2
                    /\ (ValidBefore(pads, p) % 4)
                         + (IF p - 1 \in pads THEN 2 ELSE 1) >= 4}
    IN IF stops = {} THEN 0
       ELSE CHOOSE p \in stops : \A x \in stops : p <= x

\* base64.b64decode(data) given the positions of "=": the alphabet
\* characters before the stop are decoded 4 to 3 bytes; characters left
\* over at the end of the data raise binascii.Error
DecodeWith(data, pads, stop) ==
    LET count == IF stop = 0 THEN Len(data) - Cardinality(pads)
                 ELSE ValidBefore(pads, stop)
        size == (3 * (count \div 4))
                + (CASE (count % 4) = 2 -> 1 [] (count % 4) = 3 -> 2
                     [] OTHER -> 0)
        char(t) ==
            data[t + Cardinality({p \in pads : ValidBefore(pads, p) < t})]
    IN [raised |-> stop = 0 /\ (count % 4) # 0,
        bytes |->
          [i \in 1..size |->
              LET q == (i - 1) \div 3
                  r == (i - 1) % 3
              IN CASE r = 0 -> (char(4 * q + 1) * 4)
                                 + (char(4 * q + 2) \div 16)
                   [] r = 1 -> ((char(4 * q + 2) % 16) * 16)
                                 + (char(4 * q + 3) \div 4)
                   [] OTHER -> ((char(4 * q + 3) % 4) * 64)
                                 + char(4 * q + 4)]]

b64decode(data) ==
    DecodeWith(data, PadPositions(data), StopPosition(PadPositions(data)))

\* the loop of BundleCommand.__call__ from byte n + 1 on:
\* chunk = tar_file.read(self.chunk_size); write(b64encode(chunk))
RECURSIVE EncodeFrom(_, _)
EncodeFrom(bytes, n) ==
    IF n >= Len(bytes) THEN << >>
    ELSE IF n + BundleChunkSize >= Len(bytes)
    THEN b64encode(SubSeq(bytes, n + 1, Len(bytes)))
    ELSE b64encode(SubSeq(bytes, n + 1, n + BundleChunkSize))
         \o EncodeFrom(bytes, n + BundleChunkSize)

\* the loop of extract_bundle_data from character n + 1 on, with the bytes
\* written so far: data = BUNDLE_DATA[n:n + chunk_size]
RECURSIVE DecodeFrom(_, _, _)
DecodeFrom(data, n, written) ==
    IF n >= Len(data) THEN [raised |-> FALSE, bytes |-> written]
    ELSE LET slice == SubSeq(data, n + 1,
                             IF n + UnbundleChunkSize >= Len(data)
                             THEN Len(data) ELSE n + UnbundleChunkSize)
             decoded == b64decode(slice)
         IN IF decoded.raised THEN [raised |-> TRUE, bytes |-> written]
            ELSE DecodeFrom(data, n + UnbundleChunkSize,
                            written \o decoded.bytes)

\* the codec is not in use
CodecIdle ==
    /\ bundle_tar = << >>
    /\ BUNDLE_DATA = << >>
    /\ website_tar = [step |-> "none", raised |-> FALSE, bytes |-> << >>]

\* InstallCommand.tasks
DefaultTasks ==
    <<"create_project_directories", "create_virtual_environment",
      "install_libs", "install_extensions", "create_project_skeleton",
      "write_project_settings", "install_website", "setup_database",
      "copy_uploads", "configure_zeo_service", "configure_zeo_pack",
      "configure_temp_files_purging", "configure_backup", "configure_apache",
      "obtain_lets_encrypt_certificate", "configure_apache_https",
      "configure_mod_wsgi_express",
      "configure_mod_wsgi_express_cache_server",
      "add_hostname_to_hosts_file", "create_mercurial_repository",
      "create_launcher">>

(***************************************************************************)
(* The parameters of a bundle: BundleCommand collects the arguments given  *)
(* at bundle time, the generated file assigns them to installer.unbundle   *)
(* and BundleInstaller.run_cli parses the command line of the generated    *)
(* file.  A parameter value is a string ("None" for None) or a boolean.    *)
(***************************************************************************)
VARIABLES
    bundle_argv,         \* the arguments given to the bundle command
    bundle_defaults,     \* BundleCommand.bundle_defaults
    unbundle_attrs,      \* the attributes of installer.unbundle
    unbundle_argv,       \* the arguments given to the generated file
    bundle_step          \* "none", "collected", "prefilled", "parsed"

defaults_vars ==
    <<bundle_argv, bundle_defaults, unbundle_attrs, unbundle_argv,
      bundle_step>>

\* the value of a function with some entries replaced: setattr for each entry
SetAttrs(attrs, values) ==
    [key \in DOMAIN attrs \cup DOMAIN values |->
        IF key \in DOMAIN values THEN values[key] ELSE attrs[key]]

\* the arguments InstallCommand.setup_cli adds, each with the names given to
\* add_argument, character by character, and the attribute argparse stores
install_arguments ==
    <<[args |-> <<<<"w", "e", "b", "s", "i", "t", "e">>>>, dest |-> "website"],
      [args |-> <<<<"-", "-", "t", "a", "s", "k", "s">>>>, dest |-> "tasks"],
      [args |-> <<<<"-", "-", "r", "e", "c", "r", "e", "a", "t", "e", "-", "e", "n", "v">>>>,
       dest |-> "recreate_env"],
      [args |-> <<<<"-", "-", "a", "p", "a", "c", "h", "e", "-", "e", "r", "r", "o", "r", "-", "l", "o", "g">>>>,
       dest |-> "apache_error_log"],
      [args |-> <<<<"-", "-", "m", "o", "d", "-", "w", "s", "g", "i", "-", "e", "r", "r", "o", "r", "-", "l", "o", "g">>>>,
       dest |-> "mod_wsgi_error_log"],
      [args |-> <<<<"-", "-", "c", "a", "c", "h", "e", "-", "e", "n", "a", "b", "l", "e", "d">>>>,
       dest |-> "cache_enabled"]>>

\* the arguments CopyCommand.setup_cli adds after those of InstallCommand
copy_arguments ==
    <<[args |-> <<<<"s", "o", "u", "r", "c", "e", "_", "i", "n", "s", "t", "a", "l", "l", "a", "t", "i", "o", "n">>>>,
       dest |-> "source_installation"],
      [args |-> <<<<"-", "-", "r", "e", "v", "i", "s", "i", "o", "n">>>>,
       dest |-> "revision"],
      [args |-> <<<<"-", "-", "s", "k", "i", "p", "-", "d", "a", "t", "a", "b", "a", "s", "e">>>>,
       dest |-> "skip_database"],
      [args |-> <<<<"-", "-", "s", "k", "i", "p", "-", "u", "p", "l", "o", "a", "d", "s">>>>,
       dest |-> "skip_uploads"],
      [args |-> <<<<"-", "-", "u", "p", "l", "o", "a", "d", "s", "-", "r", "e", "p", "o", "s", "i", "t", "o", "r", "y">>>>,
       dest |-> "uploads_repository"]>>

\* the arguments BundleCommand.setup_cli adds before those of CopyCommand
bundle_arguments ==
    <<[args |-> <<<<"-", "-", "o", "u", "t", "p", "u", "t", "-", "f", "i", "l", "e">>>>,
       dest |-> "output_file"],
      [args |-> <<<<"-", "-", "c", "o", "m", "p", "r", "e", "s", "s", "i", "o", "n">>>>,
       dest |-> "compression"]>>

\* BundleCommand.disabled_parameters
bundle_disabled_parameters ==
    {<<"t", "a", "s", "k", "s">>,
     <<"r", "e", "c", "r", "e", "a", "t", "e", "-", "e", "n", "v">>}

\* UnbundleCommand.disabled_parameters
unbundle_disabled_parameters ==
    {<<"w", "e", "b", "s", "i", "t", "e">>,
     <<"s", "o", "u", "r", "c", "e", "_", "i", "n", "s", "t", "a", "l", "l", "a", "t", "i", "o", "n">>}

\* Command._arg_name: "--" + parameter.replace("_", "-")
_arg_name(parameter) ==
    <<"-", "-">>
       \o [i \in 1..Len(parameter) |->
              IF parameter[i] = "_" THEN "-" ELSE parameter[i]]

\* Command._param_matches_args
_param_matches_args(param, args) ==
    \E i \in 1..Len(args) : args[i] = param \/ args[i] = _arg_name(param)

\* Command.add_argument: False for a disabled parameter, True when the
\* argument is added to the parser
add_argument(disabled_parameters, args) ==
    ~\E param \in disabled_parameters : _param_matches_args(param, args)

\* the dest of the arguments a setup_cli adds to the parser of a command
Added(disabled_parameters, arguments) ==
    {arguments[i].dest :
        i \in {k \in 1..Len(arguments) :
                  add_argument(disabled_parameters, arguments[k].args)}}

\* the arguments whose value is a string, and the store_true arguments
StringArguments ==
    {"revision", "uploads_repository", "apache_error_log", "mod_wsgi_error_log"}

BooleanArguments ==
    {"skip_database", "skip_uploads", "cache_enabled", "recreate_env"}

\* BundleCommand.bundle_parameters: arguments that keep their own default
bundle_parameters == {"output_file", "compression"}

\* BundleCommand.unexportable_parameters without the output file
unexportable_parameters_without_output == {"command", "source_installation"}

\* BundleCommand.unexportable_parameters
unexportable_parameters == {"command", "output_file", "source_installation"}

\* the default of BundleCommand.add_argument for every other argument
undefined_parameter == << >>

\* the arguments of the parser of the bundle command
BundleArguments ==
    {"command"}
        \cup Added(bundle_disabled_parameters,
                   bundle_arguments \o install_arguments \o copy_arguments)

\* the class attributes of BundleCommand for its own parameters
BundleAttribute(key) == IF key = "output_file" THEN "website.py" ELSE "bz2"

\* cli.parse_args() of the bundle command: an argument that is not given
\* has the default BundleCommand.add_argument forced on it
bundle_parse_args(argv) ==
    [key \in BundleArguments |->
        IF key \in DOMAIN argv THEN <<argv[key]>>
        ELSE IF key \in bundle_parameters THEN <<BundleAttribute(key)>>
        ELSE undefined_parameter]

\* BundleCommand.process_parameters: the values that are defined and
\* exportable
collect_bundle_defaults(parameters) ==
    [key \in {k \in DOMAIN parameters :
                 /\ k \notin unexportable_parameters
                 /\ parameters[k] # undefined_parameter} |->
        parameters[key][1]]

\* the class attributes of UnbundleCommand
UnbundleAttributes ==
    [revision |-> "None", uploads_repository |-> "None",
     apache_error_log |-> "None", mod_wsgi_error_log |-> "None",
     skip_database |-> FALSE, skip_uploads |-> FALSE,
     cache_enabled |-> FALSE, recreate_env |-> FALSE, tasks |-> DefaultTasks,
     source_installation |-> "/tmp/woostproject-bundle"]

\* the arguments of the parser of the generated file: website and
\* source_installation are disabled
UnbundleArguments ==
    Added(unbundle_disabled_parameters, install_arguments \o copy_arguments)

\* the default of an argument of the generated file, as setup_cli gives it
ArgumentDefault(attrs, key) ==
    CASE key \in {"skip_database", "skip_uploads"} -> FALSE
      [] key = "uploads_repository" -> "None"
      [] key = "mod_wsgi_error_log" -> attrs["apache_error_log"]
      [] OTHER -> attrs[key]

\* cli.parse_args() of the generated file
unbundle_parse_args(attrs, argv) ==
    [key \in UnbundleArguments |->
        IF key \in DOMAIN argv THEN argv[key] ELSE ArgumentDefault(attrs, key)]

\* Command.process_parameters
process_parameters(attrs, parameters) == SetAttrs(attrs, parameters)

NoArguments == [key \in {} |-> "None"]

\* no bundle is made
DefaultsIdle ==
    /\ bundle_argv = NoArguments
    /\ bundle_defaults = NoArguments
    /\ unbundle_attrs = UnbundleAttributes
    /\ unbundle_argv = NoArguments
    /\ bundle_step = "none"

(***************************************************************************)
(* Changes of the task lists: InstallCommand.add_task and                  *)
(* add_preliminary_task.  None is "None".                                  *)
(***************************************************************************)
VARIABLES
    last_add             \* history: the last add_task / add_preliminary_task

tasklist_vars == <<last_add>>

\* list.index(value): the first position (from 1) of value, 0 for ValueError
Index(list, value) ==
    IF \E k \in 1..Len(list) : list[k] = value
    THEN CHOOSE k \in 1..Len(list) :
            list[k] = value /\ \A j \in 1..(k - 1) : list[j] # value
    ELSE 0

\* list.insert(pos, value) for 0 <= pos <= len(list)
Insert(list, pos, value) ==
    SubSeq(list, 1, pos) \o <<value>> \o SubSeq(list, pos + 1, Len(list))

AddResult(list, raised) == [list |-> list, raised |-> raised]

\* add_task that inserts at the position of the `after` anchor
add_task_at_anchor(list, task, after, before) ==
    IF Unset(after) /\ Unset(before) THEN AddResult(list, "ValueError")
    ELSE IF ~Unset(after) /\ ~Unset(before) THEN AddResult(list, "ValueError")
    ELSE IF ~Unset(after)
    THEN IF Index(list, after) = 0 THEN AddResult(list, "ValueError")
         ELSE AddResult(Insert(list, Index(list, after) - 1, task), "none")
    ELSE IF Index(list, before) = 0 THEN AddResult(list, "ValueError")
         ELSE AddResult(Insert(list, Index(list, before) - 1, task), "none")

\* InstallCommand.add_task on self.tasks; pos = index - 1 counts from 0
add_task(list, task, after, before) ==
    IF Unset(after) /\ Unset(before) THEN AddResult(list, "ValueError")
    ELSE IF ~Unset(after) /\ ~Unset(before) THEN AddResult(list, "ValueError")
    ELSE IF ~Unset(after)
    THEN IF Index(list, after) = 0 THEN AddResult(list, "ValueError")
         ELSE AddResult(Insert(list, (Index(list, after) - 1) + 1, task),
                        "none")
    ELSE IF Index(list, before) = 0 THEN AddResult(list, "ValueError")
         ELSE AddResult(Insert(list, Index(list, before) - 1, task), "none")

\* InstallCommand.add_preliminary_task on self.preliminary_tasks
add_preliminary_task(list, task, after, before) ==
    IF Unset(after) /\ Unset(before) THEN AddResult(list, "ValueError")
    ELSE IF ~Unset(after) /\ ~Unset(before) THEN AddResult(list, "ValueError")
    ELSE IF ~Unset(after)
    THEN IF Index(list, after) = 0 THEN AddResult(list, "ValueError")
         ELSE AddResult(Insert(list, (Index(list, after) - 1) + 1, task),
                        "none")
    ELSE IF Index(list, before) = 0 THEN AddResult(list, "ValueError")
         ELSE AddResult(Insert(list, Index(list, before) - 1, task), "none")

NoAdd ==
    [calls |-> 0, list |-> "none", task |-> "None", after |-> "None",
     before |-> "None", raised |-> "none"]

\* no task was added
TaskListIdle == last_add = NoAdd

(***************************************************************************)
(* The ZEO subprocess of setup_database and copy_uploads.  zeo_process is  *)
(* a context manager: subprocess.Popen, the enclosed step, and             *)
(* zeo_proc.kill() in a finally clause.                                    *)
(***************************************************************************)
VARIABLES
    zeo_input,           \* the task list and the parameters the tasks read
    zeo_pc,              \* position: index of the task and place in its code
    zeo_procs,           \* the ZEO subprocesses started so far, in order
    zeo_exc              \* the exception that is propagating, "none" if none

zeo_vars == <<zeo_input, zeo_pc, zeo_procs, zeo_exc>>

\* zeo_proc.kill() would be the last statement of the with block, reached
\* only when the enclosed step returns
zeo_process_kills_on_return(raising) == ~raising

\* `try: yield zeo_proc / finally: zeo_proc.kill()`
zeo_process_kills(raising) == TRUE

ZeoPlace(idx, at) == [idx |-> idx, at |-> at]

\* `for task in self.tasks:` reaching position i of the list
ZeoTaskAt(i) ==
    IF i <= Len(zeo_input.tasks) THEN ZeoPlace(i, "start")
    ELSE ZeoPlace(0, "done")

\* the task at the current position
ZeoTask == zeo_input.tasks[zeo_pc.idx]

\* what a task does before it enters zeo_process: copy_database runs rsync,
\* init_database nothing, copy_uploads links or copies the uploads, and
\* copy_uploads without a source installation does nothing at all
BeforeZeo(task) ==
    IF task = "setup_database"
    THEN IF zeo_input.source_installation THEN "rsync" ELSE "popen"
    ELSE IF ~zeo_input.source_installation THEN "return"
         ELSE IF zeo_input.uploads_repository THEN "symlink" ELSE "rsync"

NoZeoInput ==
    [tasks |-> << >>, source_installation |-> FALSE,
     uploads_repository |-> FALSE]

\* no task that uses the ZEO subprocess is running
ZeoIdle ==
    /\ zeo_input = NoZeoInput
    /\ zeo_pc = ZeoPlace(0, "idle")
    /\ zeo_procs = << >>
    /\ zeo_exc = "none"

\* the variables of the text functions, of the task list changes and of the
\* ZEO subprocess, and their state when not in use
text_vars ==
    <<template_vars, indent_vars, codec_vars, defaults_vars, tasklist_vars,
      zeo_vars>>

TextIdle ==
    /\ TemplatesIdle /\ IndentIdle /\ CodecIdle /\ DefaultsIdle
    /\ TaskListIdle /\ ZeoIdle

InstallPreliminaryTasks ==
    <<"apply_environment_presets", "update_features", "init_config",
      "become_dedicated_user">>

InstallCleanupTasks == <<"restore_original_user">>

UnbundlePreliminaryTasks ==
    Append(InstallPreliminaryTasks, "extract_bundle_to_temp_dir")

UnbundleCleanupTasks == InstallCleanupTasks \o <<"delete_bundle_temp_dir">>

\* The task names tried with --tasks and --skip-tasks.
ArgTasks == {"install_libs", "configure_zeo_service", "install_website"}

TaskListChoices == {DefaultTasks} \cup SeqsUpTo(ArgTasks, MaxTaskArgs)

SkipChoices ==
    {S \in SUBSET (ArgTasks \cup {"init_config"}) : Cardinality(S) <= MaxSkipped}

(***************************************************************************)
(* The external commands and other failing steps of each main task, in the *)
(* order the task issues them on a fresh installation:                     *)
(*   "exec"  a command run by _exec / _sudo (check_call),                  *)
(*   "hg"    a command run by _hg,                                         *)
(*   "stop"  the _stop_service call of configure_zeo_service, inside       *)
(*           try / except CalledProcessError: pass,                        *)
(*   "local" Python code of the task that can raise (file system).         *)
(***************************************************************************)
TaskOps(task) ==
    CASE task = "create_project_directories" -> <<"local">>
      [] task = "create_virtual_environment" -> <<"exec", "exec", "exec", "local">>
      [] task = "install_libs" -> <<"hg", "exec", "hg", "exec">>
      [] task = "install_extensions" -> <<"hg", "exec">>
      [] task = "create_project_skeleton" -> <<"hg", "local", "hg">>
      [] task = "write_project_settings" -> <<"local">>
      [] task = "install_website" -> <<"exec">>
      [] task = "setup_database" -> <<"exec">>
      [] task = "copy_uploads" -> <<"exec", "exec">>
      [] task = "configure_zeo_service" ->
            IF config["zodb_deployment_scheme"] = "zeo_service"
            THEN <<"stop", "exec", "exec", "exec", "exec">>
            ELSE << >>
      [] task = "configure_zeo_pack" ->
            IF config["zeo_pack"] = "True" THEN <<"exec">> ELSE << >>
      [] task = "configure_temp_files_purging" ->
            IF config["purge_temp_files"] = "True" THEN <<"exec">> ELSE << >>
      [] task = "configure_backup" ->
            IF config["backup"] = "True" THEN <<"exec">> ELSE << >>
      [] task = "configure_apache" ->
            IF config["deployment_scheme"] = "cherrypy" THEN << >>
            ELSE <<"exec", "exec", "exec", "exec">>
      [] task = "obtain_lets_encrypt_certificate" ->
            IF config["lets_encrypt"] = "True" THEN <<"exec">> ELSE << >>
      [] task = "configure_apache_https" ->
            IF config["lets_encrypt"] = "True" THEN <<"exec", "exec">>
            ELSE << >>
      [] task = "configure_mod_wsgi_express" ->
            IF config["deployment_scheme"] = "mod_wsgi_express"
            THEN <<"exec", "exec", "exec", "exec">>
            ELSE << >>
      \* cache_enabled is off by default
      [] task = "configure_mod_wsgi_express_cache_server" -> << >>
      \* modify_hosts_file is off by default
      [] task = "add_hostname_to_hosts_file" -> << >>
      [] task = "create_mercurial_repository" -> <<"hg", "local", "hg", "hg">>
      [] task = "create_launcher" -> <<"local", "exec">>
      [] OTHER -> << >>

\* an exception: its type, the task that raised it, and (Python's
\* __context__) the task whose exception was propagating when it was raised
NoExc ==
    [type |-> "none", phase |-> "none", idx |-> 0,
     ctx_phase |-> "none", ctx_idx |-> 0]

Raised(type, phase, idx, context) ==
    [type |-> type, phase |-> phase, idx |-> idx,
     ctx_phase |-> context.phase, ctx_idx |-> context.idx]

At(phase, idx, op) == [phase |-> phase, idx |-> idx, op |-> op, hg |-> "none"]

NotStarted == At("none", 0, 0)

\* `for task in self.tasks:` reaching position i of the list
MainAt(i) ==
    IF i <= Len(tasks) THEN At("main", i, 0) ELSE At("finally", 0, 0)

\* `for task in self.preliminary_tasks:` reaching position i of the list
PreliminaryAt(i) ==
    IF i <= Len(preliminary_tasks) THEN At("prelim", i, 0) ELSE MainAt(1)

\* `for task in self.cleanup_tasks:` reaching position i of the list
CleanupAt(i) ==
    IF i <= Len(cleanup_tasks) THEN At("cleanup", i, 0) ELSE At("done", 0, 0)

\* the position after operation k of main task i has returned
AfterOp(i, k) ==
    IF k < Len(TaskOps(tasks[i])) THEN At("main", i, k + 1) ELSE MainAt(i + 1)

\* without try / finally the exception leaves __call__ at once
RaiseTargetNoFinally == At("done", 0, 0)

\* `try: ... finally:` of __call__: where an exception raised by a
\* preliminary or main task takes the control
RaiseTarget == At("finally", 0, 0)

\* the skip list is not consulted
ShouldRunAlways(task) == TRUE

\* `if task not in self.skipped_tasks:`
ShouldRun(task) == task \notin skipped_tasks

\* the cleanup loop runs in every process
CleanupGuardMissing(isChild) == TRUE

\* `if not self._is_child_process:` guarding the cleanup loop
CleanupGuard(isChild) == ~isChild

\* check_call raises CalledProcessError on a non-zero return code; only the
\* _stop_service call of configure_zeo_service catches it
Propagates(kind, rc) == rc # 0 /\ kind # "stop"

\* os.waitpid(pid, os.WNOHANG) returns while the child is still running
waitpid_nohang(child) == TRUE

\* `os.waitpid(pid, 0)` in _hg returns once the child process has ended
waitpid(child) == child.phase = "done"

\* `os.waitpid(pid, 0)` in _hg: the status of the child is discarded
WaitpidRaises(status) == FALSE

LogEntry(p, phase, idx, task) ==
    [proc |-> p, phase |-> phase, idx |-> idx, task |-> task]

ReturnCodes == {0, 1}

\* the feature whose install fails during update_features
InstallFailures == {"none", "core3", "apache"}

\* what the preliminary tasks other than update_features can end with
PreliminaryOutcomes(task) ==
    CASE task = "apply_environment_presets" -> {"ok"}
      \* sys.exit(1): no workspace, no cocktail version, no Apache 2.4
      [] task = "init_config" -> {"ok", "SystemExit"}
      \* sys.exit(1) without root access; useradd can fail
      [] task = "become_dedicated_user" ->
            IF ~dedicated_user THEN {"ok"}
            ELSE IF ~is_root THEN {"SystemExit"}
            ELSE {"ok", "CalledProcessError"}
      \* tarfile / base64 errors of extract_bundle_data
      [] task = "extract_bundle_to_temp_dir" -> {"ok", "OSError"}
      [] OTHER -> {"ok"}

PipelineInit ==
    /\ \E unbundle \in BOOLEAN :
        /\ preliminary_tasks =
              IF unbundle THEN UnbundlePreliminaryTasks
              ELSE InstallPreliminaryTasks
        /\ cleanup_tasks =
              IF unbundle THEN UnbundleCleanupTasks ELSE InstallCleanupTasks
    /\ tasks \in TaskListChoices
    /\ skipped_tasks \in SkipChoices
    /\ dedicated_user \in BOOLEAN
    /\ environment \in DOMAIN environments
    /\ config \in ConfigChoices
    /\ is_root \in BOOLEAN
    /\ launcher_supported \in BOOLEAN
    /\ pc = [p \in Procs |-> IF p = "parent" THEN At("idle", 0, 0) ELSE NotStarted]
    /\ exc = [p \in Procs |-> NoExc]
    /\ is_child_process = [p \in Procs |-> FALSE]
    /\ euid = [p \in Procs |-> IF is_root THEN "root" ELSE "user"]
    /\ egid = IF is_root THEN "root" ELSE "user"
    /\ original_uid = "None"
    /\ hg_euid = "None"
    /\ bundle_dir \in BOOLEAN
    /\ log = << >>
    /\ cmd_failed = FALSE
    /\ config_dir = FALSE
    /\ version_file = [f \in Features |-> NoFile]
    /\ last_call = NoCall
    /\ PortsIdle
    /\ ConfigIdle
    /\ TextIdle

\* InstallCommand.__call__ is entered
Call(p) ==
    /\ pc[p].phase = "idle"
    /\ pc' = [pc EXCEPT ![p] = PreliminaryAt(1)]
    /\ UNCHANGED <<setup_vars, config, exc, is_child_process, euid,
                   original_uid, hg_euid, egid, bundle_dir, log, cmd_failed,
                   feature_vars, port_vars,
                   config_vars, text_vars>>

\* `getattr(self, task)()` for the preliminary task update_features
RunUpdateFeatures(p) ==
    /\ pc[p].phase = "prelim"
    /\ preliminary_tasks[pc[p].idx] = "update_features"
    /\ \E bad \in InstallFailures :
        \E required \in {get_required_features(config, tasks, launcher_supported)} :
        \E st \in {update_features(FeatureState(config_dir, version_file),
                                   required, bad)} :
        LET i == pc[p].idx
        IN /\ config_dir' = st.config_dir
           /\ version_file' = st.version_file
           /\ last_call' = CallRecord("update_features", "none", NoFile, st,
                                      required)
           /\ log' = Append(log, LogEntry(p, "prelim", i, "update_features"))
           /\ cmd_failed' = (cmd_failed \/ st.raised)
           /\ IF st.raised
              THEN /\ pc' = [pc EXCEPT ![p] = RaiseTarget]
                   /\ exc' = [exc EXCEPT ![p] =
                                Raised("CalledProcessError", "prelim", i, exc[p])]
              ELSE /\ pc' = [pc EXCEPT ![p] = PreliminaryAt(i + 1)]
                   /\ exc' = exc
    /\ UNCHANGED <<setup_vars, config, is_child_process, euid, original_uid,
                   hg_euid, egid, bundle_dir, port_vars,
                   config_vars, text_vars>>

\* `getattr(self, task)()` for one of the other preliminary tasks
RunPreliminaryTask(p) ==
    /\ pc[p].phase = "prelim"
    /\ preliminary_tasks[pc[p].idx] # "update_features"
    /\ LET i == pc[p].idx
           task == preliminary_tasks[i]
       IN \E outcome \in PreliminaryOutcomes(task) :
            /\ log' = Append(log, LogEntry(p, "prelim", i, task))
            /\ cmd_failed' = (cmd_failed \/ outcome = "CalledProcessError")
            /\ IF outcome = "ok"
               THEN /\ pc' = [pc EXCEPT ![p] = PreliminaryAt(i + 1)]
                    /\ exc' = exc
               ELSE /\ pc' = [pc EXCEPT ![p] = RaiseTarget]
                    /\ exc' = [exc EXCEPT ![p] =
                                 Raised(outcome, "prelim", i, exc[p])]
            /\ config' = IF task = "apply_environment_presets"
                         THEN apply_environment_presets(config, environment)
                         ELSE config
            \* become_dedicated_user: _original_uid is stored before useradd
            \* runs, the identity changes once the user exists
            /\ IF task = "become_dedicated_user" /\ dedicated_user /\ is_root
               THEN /\ original_uid' = euid[p]
                    \* os.setegid(user_info.pw_gid)
                    /\ egid' = IF outcome = "ok" THEN "dedicated" ELSE egid
                    \* os.seteuid(user_info.pw_uid)
                    /\ euid' = IF outcome = "ok"
                               THEN [euid EXCEPT ![p] = "dedicated"]
                               ELSE euid
               ELSE UNCHANGED <<original_uid, euid, egid>>
            \* extract_bundle_to_temp_dir: os.makedirs(..., exist_ok=True)
            /\ bundle_dir' =
                  IF task = "extract_bundle_to_temp_dir" THEN TRUE
                  ELSE bundle_dir
    /\ UNCHANGED <<setup_vars, is_child_process, hg_euid, feature_vars, port_vars,
                   config_vars, text_vars>>

\* a main task named in skipped_tasks is passed over
SkipTask(p) ==
    /\ pc[p].phase = "main" /\ pc[p].op = 0 /\ pc[p].hg = "none"
    /\ ~ShouldRun(tasks[pc[p].idx])
    /\ pc' = [pc EXCEPT ![p] = MainAt(pc[p].idx + 1)]
    /\ UNCHANGED <<setup_vars, config, exc, is_child_process, euid,
                   original_uid, hg_euid, egid, bundle_dir, log, cmd_failed,
                   feature_vars, port_vars,
                   config_vars, text_vars>>

\* `getattr(self, task)()` for one main task: the task starts
BeginTask(p) ==
    /\ pc[p].phase = "main" /\ pc[p].op = 0 /\ pc[p].hg = "none"
    /\ ShouldRun(tasks[pc[p].idx])
    /\ log' = Append(log, LogEntry(p, "main", pc[p].idx, tasks[pc[p].idx]))
    /\ pc' = [pc EXCEPT ![p] = AfterOp(pc[p].idx, 0)]
    /\ UNCHANGED <<setup_vars, config, exc, is_child_process, euid,
                   original_uid, hg_euid, egid, bundle_dir, cmd_failed,
                   feature_vars, port_vars,
                   config_vars, text_vars>>

\* the current operation of the main task process p is in
CurrentOp(p) == TaskOps(tasks[pc[p].idx])[pc[p].op]

InOp(p) == pc[p].phase = "main" /\ pc[p].op > 0 /\ pc[p].hg = "none"

\* Installer._exec / _sudo: subprocess.check_call
Exec(p) ==
    /\ InOp(p)
    /\ CurrentOp(p) \in {"exec", "stop"}
    /\ \E rc \in ReturnCodes :
        /\ cmd_failed' = (cmd_failed \/ rc # 0)
        /\ IF Propagates(CurrentOp(p), rc)
           THEN /\ pc' = [pc EXCEPT ![p] = RaiseTarget]
                /\ exc' = [exc EXCEPT ![p] =
                             Raised("CalledProcessError", "main", pc[p].idx,
                                    exc[p])]
           ELSE /\ pc' = [pc EXCEPT ![p] = AfterOp(pc[p].idx, pc[p].op)]
                /\ exc' = exc
    /\ UNCHANGED <<setup_vars, config, is_child_process, euid, original_uid,
                   hg_euid, egid, bundle_dir, log, feature_vars, port_vars,
                   config_vars, text_vars>>

\* Python code of a task that may raise
Local(p) ==
    /\ InOp(p)
    /\ CurrentOp(p) = "local"
    /\ \E ok \in BOOLEAN :
        IF ok
        THEN /\ pc' = [pc EXCEPT ![p] = AfterOp(pc[p].idx, pc[p].op)]
             /\ exc' = exc
        ELSE /\ pc' = [pc EXCEPT ![p] = RaiseTarget]
             /\ exc' = [exc EXCEPT ![p] =
                          Raised("OSError", "main", pc[p].idx, exc[p])]
    /\ UNCHANGED <<setup_vars, config, is_child_process, euid, original_uid,
                   hg_euid, egid, bundle_dir, log, cmd_failed, feature_vars,
                   port_vars,
                   config_vars, text_vars>>

\* _hg without a dedicated user: self.installer._exec("hg", ...)
HgDirect(p) ==
    /\ InOp(p)
    /\ CurrentOp(p) = "hg"
    /\ ~dedicated_user
    /\ \E rc \in ReturnCodes :
        /\ cmd_failed' = (cmd_failed \/ rc # 0)
        /\ IF Propagates("hg", rc)
           THEN /\ pc' = [pc EXCEPT ![p] = RaiseTarget]
                /\ exc' = [exc EXCEPT ![p] =
                             Raised("CalledProcessError", "main", pc[p].idx,
                                    exc[p])]
           ELSE /\ pc' = [pc EXCEPT ![p] = AfterOp(pc[p].idx, pc[p].op)]
                /\ exc' = exc
    /\ UNCHANGED <<setup_vars, config, is_child_process, euid, original_uid,
                   hg_euid, egid, bundle_dir, log, feature_vars, port_vars,
                   config_vars, text_vars>>

\* _hg with a dedicated user, up to os.fork(): the child starts as a copy of
\* the calling process
HgFork(p) ==
    /\ InOp(p)
    /\ CurrentOp(p) = "hg"
    /\ dedicated_user
    /\ p = "parent"
    /\ pc["child"].phase = "none"
    /\ hg_euid' = euid[p]
    /\ euid' = [q \in Procs |-> original_uid]
    /\ pc' = [pc EXCEPT ![p].hg = "wait",
                        !["child"] = [pc[p] EXCEPT !.hg = "child"]]
    /\ exc' = [exc EXCEPT !["child"] = exc[p]]
    /\ is_child_process' =
          [is_child_process EXCEPT !["child"] = is_child_process[p]]
    /\ UNCHANGED <<setup_vars, config, original_uid, egid, bundle_dir, log,
                   cmd_failed, feature_vars, port_vars,
                   config_vars, text_vars>>

\* the else branch of `if pid:` in the child: _is_child_process = True,
\* os.setuid(euid), _exec("hg", ...), sys.exit(0)
HgChild(p) ==
    /\ pc[p].hg = "child"
    /\ is_child_process' = [is_child_process EXCEPT ![p] = TRUE]
    /\ euid' = [euid EXCEPT ![p] = hg_euid]
    /\ \E rc \in ReturnCodes :
        /\ cmd_failed' = (cmd_failed \/ rc # 0)
        /\ pc' = [pc EXCEPT ![p] = RaiseTarget]
        /\ exc' = [exc EXCEPT ![p] =
                     Raised(IF rc # 0 THEN "CalledProcessError"
                            ELSE "SystemExit", "main", pc[p].idx, exc[p])]
    /\ UNCHANGED <<setup_vars, config, original_uid, hg_euid, egid,
                   bundle_dir, log,
                   feature_vars, port_vars,
                   config_vars, text_vars>>

\* the then branch of `if pid:` in the parent: os.waitpid(pid, 0) returns
\* once the child has ended, then os.seteuid(euid)
HgWait(p) ==
    /\ pc[p].hg = "wait"
    /\ waitpid(pc["child"])
    /\ euid' = [euid EXCEPT ![p] = hg_euid]
    /\ IF WaitpidRaises(exc["child"].type)
       THEN /\ pc' = [pc EXCEPT ![p] = RaiseTarget, !["child"] = NotStarted]
            /\ exc' = [exc EXCEPT ![p] =
                         Raised("CalledProcessError", "main", pc[p].idx,
                                exc[p]),
                                  !["child"] = NoExc]
       ELSE /\ pc' = [pc EXCEPT ![p] = AfterOp(pc[p].idx, pc[p].op),
                               !["child"] = NotStarted]
            /\ exc' = [exc EXCEPT !["child"] = NoExc]
    \* the child process is gone
    /\ is_child_process' = [is_child_process EXCEPT !["child"] = FALSE]
    /\ UNCHANGED <<setup_vars, config, original_uid, hg_euid, egid,
                   bundle_dir, log,
                   cmd_failed, feature_vars, port_vars,
                   config_vars, text_vars>>

\* `finally:` of __call__ is entered, by an exception or by the end of the
\* main loop
Finally(p) ==
    /\ pc[p].phase = "finally"
    /\ pc' = [pc EXCEPT ![p] =
                IF CleanupGuard(is_child_process[p]) THEN CleanupAt(1)
                ELSE At("done", 0, 0)]
    /\ UNCHANGED <<setup_vars, config, exc, is_child_process, euid,
                   original_uid, hg_euid, egid, bundle_dir, log, cmd_failed,
                   feature_vars, port_vars,
                   config_vars, text_vars>>

\* `getattr(self, task)()` for one cleanup task
RunCleanupTask(p) ==
    /\ pc[p].phase = "cleanup"
    /\ LET i == pc[p].idx
           task == cleanup_tasks[i]
           \* delete_bundle_temp_dir: shutil.rmtree of a missing directory
           raises == task = "delete_bundle_temp_dir" /\ ~bundle_dir
       IN /\ log' = Append(log, LogEntry(p, "cleanup", i, task))
          \* restore_original_user
          /\ euid' = IF task = "restore_original_user" /\ original_uid # "None"
                     THEN [euid EXCEPT ![p] = original_uid]
                     ELSE euid
          /\ bundle_dir' = IF task = "delete_bundle_temp_dir" THEN FALSE
                           ELSE bundle_dir
          /\ IF raises
             THEN /\ pc' = [pc EXCEPT ![p] = At("done", 0, 0)]
                  /\ exc' = [exc EXCEPT ![p] =
                               Raised("FileNotFoundError", "cleanup", i, exc[p])]
             ELSE /\ pc' = [pc EXCEPT ![p] = CleanupAt(i + 1)]
                  /\ exc' = exc
    /\ UNCHANGED <<setup_vars, config, is_child_process, original_uid,
                   hg_euid, egid, cmd_failed, feature_vars, port_vars,
                   config_vars, text_vars>>

PipelineNext ==
    \E p \in Procs :
        \/ Call(p)
        \/ RunUpdateFeatures(p)
        \/ RunPreliminaryTask(p)
        \/ SkipTask(p)
        \/ BeginTask(p)
        \/ Exec(p)
        \/ Local(p)
        \/ HgDirect(p)
        \/ HgFork(p)
        \/ HgChild(p)
        \/ HgWait(p)
        \/ Finally(p)
        \/ RunCleanupTask(p)

vars == <<pipeline_vars, feature_vars, port_vars, config_vars, text_vars>>

Init == PipelineInit

Next == PipelineNext

Spec == Init /\ [][Next]_vars

(***************************************************************************)
(* The feature command and the feature operations on their own: the        *)
(* marker files start from arbitrary contents, and `feature --update`,     *)
(* `feature --disable` and the pipeline task update_features are run in    *)
(* any order.                                                              *)
(***************************************************************************)
\* the features the feature command is run on
CommandFeatures == {"core3", "apache", "launcher"}

\* the features whose marker file starts with arbitrary contents
VariedFeatures == {"core3", "apache"}

\* the namespaces update_features is run with (after the presets)
FeatureConfigChoices ==
    {[DefaultConfig EXCEPT !["deployment_scheme"] = d] :
        d \in {"mod_rewrite", "mod_wsgi", "cherrypy"}}

\* no pipeline is running
PipelineIdle ==
    /\ preliminary_tasks = InstallPreliminaryTasks
    /\ cleanup_tasks = InstallCleanupTasks
    /\ tasks = DefaultTasks
    /\ skipped_tasks = {}
    /\ dedicated_user = FALSE
    /\ environment = "development"
    /\ config = DefaultConfig
    /\ is_root = FALSE
    /\ launcher_supported = FALSE
    /\ pc = [p \in Procs |-> IF p = "parent" THEN At("idle", 0, 0) ELSE NotStarted]
    /\ exc = [p \in Procs |-> NoExc]
    /\ is_child_process = [p \in Procs |-> FALSE]
    /\ euid = [p \in Procs |-> "user"]
    /\ egid = "user"
    /\ original_uid = "None"
    /\ hg_euid = "None"
    /\ bundle_dir = FALSE
    /\ log = << >>
    /\ cmd_failed = FALSE

FeatureInit ==
    /\ PipelineIdle
    /\ ConfigIdle
    /\ TextIdle
    /\ config_dir \in BOOLEAN
    /\ \E f0 \in VariedFeatures, file \in {NoFile} \cup {File(t) : t \in MarkerTexts} :
          version_file = [f \in Features |->
                            IF f = f0 /\ config_dir THEN file ELSE NoFile]
    /\ last_call = NoCall
    /\ PortsIdle

\* FeatureCommand.__call__ with action "update"
FeatureCommandUpdate ==
    /\ \E f \in CommandFeatures, install_ok \in BOOLEAN :
        \E st \in {update(FeatureState(config_dir, version_file), f, install_ok)} :
           /\ config_dir' = st.config_dir
           /\ version_file' = st.version_file
           /\ last_call' = CallRecord("update", f, version_file[f], st, << >>)
    /\ UNCHANGED <<pipeline_vars, port_vars,
                   config_vars, text_vars>>

\* FeatureCommand.__call__ with action "disable"
FeatureCommandDisable ==
    /\ \E f \in CommandFeatures :
        \E st \in {disable(FeatureState(config_dir, version_file), f)} :
           /\ config_dir' = st.config_dir
           /\ version_file' = st.version_file
           /\ last_call' = CallRecord("disable", f, version_file[f], st, << >>)
    /\ UNCHANGED <<pipeline_vars, port_vars,
                   config_vars, text_vars>>

\* the preliminary task update_features of a pipeline run
UpdateFeatures ==
    /\ \E cfg \in FeatureConfigChoices, supported \in BOOLEAN,
          bad \in InstallFailures :
        \E required \in {get_required_features(cfg, DefaultTasks, supported)} :
        \E st \in {update_features(FeatureState(config_dir, version_file),
                                   required, bad)} :
           /\ config_dir' = st.config_dir
           /\ version_file' = st.version_file
           /\ last_call' = CallRecord("update_features", "none", NoFile, st,
                                      required)
    /\ UNCHANGED <<pipeline_vars, port_vars,
                   config_vars, text_vars>>

FeatureNext ==
    \/ FeatureCommandUpdate
    \/ FeatureCommandDisable
    \/ UpdateFeatures

FeatureSpec == FeatureInit /\ [][FeatureNext]_vars

(***************************************************************************)
(* The port registry on its own: acquire_port is called for any key, with  *)
(* or without an explicit port, on a registry that starts missing or empty.*)
(***************************************************************************)
KeyLetters == <<"a", "b", "c", "d", "e">>

\* the keys ports are acquired for
PortKeys == {<<KeyLetters[k], "-", "w">> : k \in 1..MaxPortKeys}

\* the ports given explicitly
ExplicitPorts ==
    {first_automatic_port + k : k \in 0..(MaxExplicitPorts - 1)}

\* the feature registry is not in use
FeaturesIdle ==
    /\ config_dir = FALSE
    /\ version_file = [f \in Features |-> NoFile]
    /\ last_call = NoCall

PortInit ==
    /\ PipelineIdle
    /\ ConfigIdle
    /\ TextIdle
    /\ FeaturesIdle
    \* require_config_dir creates the file with touch
    /\ ports_file \in {[exists |-> e, lines |-> << >>] : e \in BOOLEAN}
    /\ last_port = NoPortCall

\* one call of Installer.acquire_port
AcquirePort ==
    /\ \E key \in PortKeys, port \in {<< >>} \cup {<<q>> : q \in ExplicitPorts} :
       \E r \in {acquire_port(ports_file, key, port)} :
          /\ ports_file' = r.file
          /\ last_port' = [key |-> key, port |-> port, result |-> r.result,
                           raised |-> r.raised, before |-> ports_file]
    /\ UNCHANGED <<pipeline_vars, feature_vars, config_vars, text_vars>>

PortNext == AcquirePort

PortSpec == PortInit /\ [][PortNext]_vars

(***************************************************************************)
(* The derivation of the namespace on its own: init_config is run, and run *)
(* again, on one command object.                                           *)
(***************************************************************************)
\* the fields given on the command line
NamespaceChoices ==
    {[DefaultNamespace EXCEPT
        !["website"] = website, !["alias"] = alias,
        !["dedicated_user"] = user, !["workspace"] = workspace,
        !["deployment_scheme"] = scheme[1],
        !["zodb_deployment_scheme"] = scheme[2],
        !["cache_enabled"] = cache, !["port"] = port] :
        website \in {"a", "B"}, alias \in {"None", "c"},
        user \in {"None", "u"}, workspace \in {"None", "/w"},
        scheme \in {<<"cherrypy", "zeo">>, <<"mod_rewrite", "zeo">>,
                    <<"mod_wsgi_express", "zeo_service">>},
        cache \in BOOLEAN, port \in {0, 8080}}

\* the registry before the command runs: absent, empty, or holding the
\* entries of another website
RegistryChoices ==
    {[exists |-> FALSE, lines |-> << >>],
     [exists |-> TRUE, lines |-> << >>],
     [exists |-> TRUE,
      lines |-> <<FormatEntry(PortKey("z", <<"w", "e", "b">>),
                              first_automatic_port + 1),
                  FormatEntry(PortKey("z", <<"d", "b">>),
                              first_automatic_port + 2)>>]}

ConfigInit ==
    /\ PipelineIdle
    /\ FeaturesIdle
    /\ TextIdle
    /\ ports_file \in RegistryChoices
    /\ last_port = NoPortCall
    /\ ns \in NamespaceChoices
    /\ environ \in EnvironChoices
    /\ last_init = NoInit

\* one run of InstallCommand.init_config
InitConfig ==
    /\ last_init.runs < MaxInitRuns
    /\ \E r \in {init_config(ns, environ, ports_file)} :
          /\ ns' = r.ns
          /\ ports_file' = r.file
          /\ last_init' = [runs |-> last_init.runs + 1, raised |-> r.raised,
                           before |-> ns, file_before |-> ports_file]
    /\ UNCHANGED <<pipeline_vars, feature_vars, last_port, environ, text_vars>>

ConfigNext == InitConfig

ConfigSpec == ConfigInit /\ [][ConfigNext]_vars

(***************************************************************************)
(* Template expansion on its own: a template is expanded, and the output   *)
(* is expanded again.                                                      *)
(***************************************************************************)
\* the token --SETUP-<key>--
Token(key) == MarkerHead \o key \o MarkerTail

\* the pieces templates are made of
TemplatePieces ==
    {MarkerHead, MarkerTail, <<"A">>, <<"x">>, Token(<<"A">>), Token(<<"B">>)}

\* the concatenation of a sequence of texts
RECURSIVE Concat(_)
Concat(texts) ==
    IF texts = << >> THEN << >> ELSE Head(texts) \o Concat(Tail(texts))

Templates == {Concat(pieces) : pieces \in SeqsUpTo(TemplatePieces, MaxPieces)}

\* the values of the attributes: undefined, None, or a string, which may be
\* upper case or hold the text of a token
AttributeValues ==
    {Missing, NoneValue, Str(<<"x">>), Str(<<"A">>),
     Str(Token(<<"B">>))}

AttributeNames == {<<"a">>, <<"b">>}

\* the pipeline, the features, the registry and the namespace are not in use
OthersIdleForText ==
    /\ PipelineIdle
    /\ FeaturesIdle
    /\ PortsIdle
    /\ ConfigIdle

TemplateInit ==
    /\ OthersIdleForText
    /\ IndentIdle
    /\ CodecIdle
    /\ DefaultsIdle
    /\ TaskListIdle
    /\ ZeoIdle
    /\ template \in Templates
    /\ fields \in [AttributeNames -> AttributeValues]
    /\ expansion = NoExpansion

\* expand_vars(template)
ExpandTemplate ==
    /\ expansion.calls = 0
    /\ \E r \in {expand_vars(fields, template)} :
          expansion' = [calls |-> 1, input |-> template, raised |-> r.raised,
                        text |-> r.text, token |-> r.token]
    /\ UNCHANGED <<pipeline_vars, feature_vars, port_vars, config_vars,
                   template, fields, indent_vars, codec_vars,
                   defaults_vars, tasklist_vars, zeo_vars>>

\* expand_vars applied to the output of an earlier call
ExpandOutput ==
    /\ expansion.calls \in 1..(MaxExpansions - 1)
    /\ ~expansion.raised
    /\ \E r \in {expand_vars(fields, expansion.text)} :
          expansion' = [calls |-> expansion.calls + 1,
                        input |-> expansion.text, raised |-> r.raised,
                        text |-> r.text, token |-> r.token]
    /\ UNCHANGED <<pipeline_vars, feature_vars, port_vars, config_vars,
                   template, fields, indent_vars, codec_vars,
                   defaults_vars, tasklist_vars, zeo_vars>>

TemplateNext == ExpandTemplate \/ ExpandOutput

TemplateSpec == TemplateInit /\ [][TemplateNext]_vars

(***************************************************************************)
(* normalize_indent on its own.                                            *)
(***************************************************************************)
\* the lines the inputs are made of: blank, indented by four, two or one
\* blanks or a tab, not indented, with trailing blanks
InputLines ==
    {<< >>,
     <<" ", " ", " ", " ", "l", "i", "n", "e", "1">>,
     <<" ", " ", " ", " ", "l", "i", "n", "e", "2">>,
     <<"a">>, <<" ", " ", "a">>, <<" ", "b", " ">>, <<"\t", "a">>, <<" ", " ">>}

IndentInputs == {JoinLines(lines) : lines \in SeqsUpTo(InputLines, MaxLines)}

IndentInit ==
    /\ OthersIdleForText
    /\ TemplatesIdle
    /\ CodecIdle
    /\ DefaultsIdle
    /\ TaskListIdle
    /\ ZeoIdle
    /\ indent_input \in IndentInputs
    /\ indent_result = [called |-> FALSE, string |-> << >>]

\* one call of normalize_indent
NormalizeIndent ==
    /\ ~indent_result.called
    /\ indent_result' = [called |-> TRUE,
                         string |-> normalize_indent(indent_input)]
    /\ UNCHANGED <<pipeline_vars, feature_vars, port_vars, config_vars,
                   template_vars, indent_input, codec_vars,
                   defaults_vars, tasklist_vars, zeo_vars>>

IndentNext == NormalizeIndent

IndentSpec == IndentInit /\ [][IndentNext]_vars

(***************************************************************************)
(* The bundle codec on its own: a tar file is written into BUNDLE_DATA and *)
(* read back.                                                              *)
(***************************************************************************)
\* the lengths of the tar file: around each multiple of the chunk size
TarLengths ==
    {n \in {k * BundleChunkSize + e : k \in 0..MaxChunks, e \in (0 - 2)..MaxExtra} :
        n >= 0}

\* the bytes of the tar file: byte i is (a * i + c) % 256
TarPatterns == {<<1, 0>>, <<7, 255>>, <<0, 255>>, <<0, 0>>, <<85, 3>>, <<251, 128>>}

TarFiles ==
    {[i \in 1..n |-> ((ac[1] * i) + ac[2]) % 256] : n \in TarLengths, ac \in TarPatterns}

CodecInit ==
    /\ OthersIdleForText
    /\ TemplatesIdle
    /\ IndentIdle
    /\ DefaultsIdle
    /\ TaskListIdle
    /\ ZeoIdle
    /\ bundle_tar \in TarFiles
    /\ BUNDLE_DATA = << >>
    /\ website_tar = [step |-> "none", raised |-> FALSE, bytes |-> << >>]

\* BundleCommand.__call__ writes BUNDLE_DATA
WriteBundleData ==
    /\ website_tar.step = "none"
    /\ BUNDLE_DATA' = EncodeFrom(bundle_tar, 0)
    /\ website_tar' = [website_tar EXCEPT !.step = "bundled"]
    /\ UNCHANGED <<pipeline_vars, feature_vars, port_vars, config_vars,
                   template_vars, indent_vars, bundle_tar, defaults_vars, tasklist_vars, zeo_vars>>

\* UnbundleCommand.extract_bundle_data writes website.tar
ExtractBundleData ==
    /\ website_tar.step = "bundled"
    /\ \E r \in {DecodeFrom(BUNDLE_DATA, 0, << >>)} :
          website_tar' = [step |-> "extracted", raised |-> r.raised,
                          bytes |-> r.bytes]
    /\ UNCHANGED <<pipeline_vars, feature_vars, port_vars, config_vars,
                   template_vars, indent_vars, bundle_tar, BUNDLE_DATA,
                   defaults_vars, tasklist_vars, zeo_vars>>

CodecNext == WriteBundleData \/ ExtractBundleData

CodecSpec == CodecInit /\ [][CodecNext]_vars

(***************************************************************************)
(* The parameters of a bundle on their own: a bundle is made with some     *)
(* arguments and the generated file is run with some arguments.            *)
(***************************************************************************)
\* the values an argument can be given at bundle time, and when the
\* generated file is run
BundleValue(key) ==
    IF key \in BooleanArguments THEN TRUE
    ELSE IF key = "compression" THEN "gz"
    ELSE IF key = "output_file" THEN "site.py"
    ELSE key \o "-1"

UnbundleValue(key) ==
    IF key \in BooleanArguments THEN TRUE
    ELSE IF key = "tasks" THEN <<"copy_uploads", "create_launcher">>
    ELSE key \o "-2"

\* the command lines: any set of the optional arguments, each given once
BundleCommandLines ==
    {[key \in given \cup {"command", "website", "source_installation"} |->
         CASE key = "command" -> "bundle"
           [] key = "website" -> "W"
           [] key = "source_installation" -> "/src"
           [] OTHER -> BundleValue(key)] :
       given \in SUBSET (BundleArguments
                            \ {"command", "website", "source_installation"})}

UnbundleCommandLines ==
    {[key \in given |-> UnbundleValue(key)] : given \in SUBSET UnbundleArguments}

DefaultsInit ==
    /\ OthersIdleForText
    /\ TemplatesIdle
    /\ IndentIdle
    /\ CodecIdle
    /\ TaskListIdle
    /\ ZeoIdle
    /\ bundle_argv \in BundleCommandLines
    /\ bundle_defaults = NoArguments
    /\ unbundle_attrs = UnbundleAttributes
    /\ unbundle_argv = NoArguments
    /\ bundle_step = "none"

\* BundleCommand.process_parameters on the parsed arguments of the bundle
\* command
CollectBundleDefaults ==
    /\ bundle_step = "none"
    /\ bundle_defaults' = collect_bundle_defaults(bundle_parse_args(bundle_argv))
    /\ bundle_step' = "collected"
    /\ UNCHANGED <<pipeline_vars, feature_vars, port_vars, config_vars,
                   template_vars, indent_vars, codec_vars, tasklist_vars, zeo_vars, bundle_argv,
                   unbundle_attrs, unbundle_argv>>

\* the lines "installer.unbundle.P = value" of the generated file
PrefillDefaults ==
    /\ bundle_step = "collected"
    /\ unbundle_attrs' = SetAttrs(unbundle_attrs, bundle_defaults)
    /\ bundle_step' = "prefilled"
    /\ UNCHANGED <<pipeline_vars, feature_vars, port_vars, config_vars,
                   template_vars, indent_vars, codec_vars, tasklist_vars, zeo_vars, bundle_argv,
                   bundle_defaults, unbundle_argv>>

\* BundleInstaller.run_cli up to the call of the unbundle command
RunGeneratedFile ==
    /\ bundle_step = "prefilled"
    /\ \E argv \in UnbundleCommandLines :
          /\ unbundle_argv' = argv
          /\ unbundle_attrs' =
                process_parameters(unbundle_attrs,
                                   unbundle_parse_args(unbundle_attrs, argv))
    /\ bundle_step' = "parsed"
    /\ UNCHANGED <<pipeline_vars, feature_vars, port_vars, config_vars,
                   template_vars, indent_vars, codec_vars, tasklist_vars, zeo_vars, bundle_argv,
                   bundle_defaults>>

DefaultsNext == CollectBundleDefaults \/ PrefillDefaults \/ RunGeneratedFile

DefaultsSpec == DefaultsInit /\ [][DefaultsNext]_vars

(***************************************************************************)
(* The task lists on their own: tasks are added to the lists of an install *)
(* or unbundle command.                                                    *)
(***************************************************************************)
\* the names given as task, and as after / before: absent, empty, the first,
\* a middle and the last main task, and a preliminary task; each list lacks
\* some of them
AddedTasks == {"new_task", "install_libs"}

Anchors ==
    {"None", "", "create_project_directories", "install_libs",
     "create_launcher", "init_config"}

TaskListInit ==
    /\ FeaturesIdle
    /\ PortsIdle
    /\ ConfigIdle
    /\ TemplatesIdle
    /\ IndentIdle
    /\ CodecIdle
    /\ DefaultsIdle
    /\ ZeoIdle
    /\ preliminary_tasks \in {InstallPreliminaryTasks, UnbundlePreliminaryTasks}
    /\ cleanup_tasks = InstallCleanupTasks
    /\ tasks = DefaultTasks
    /\ skipped_tasks = {}
    /\ dedicated_user = FALSE
    /\ environment = "development"
    /\ config = DefaultConfig
    /\ is_root = FALSE
    /\ launcher_supported = FALSE
    /\ pc = [p \in Procs |-> IF p = "parent" THEN At("idle", 0, 0) ELSE NotStarted]
    /\ exc = [p \in Procs |-> NoExc]
    /\ is_child_process = [p \in Procs |-> FALSE]
    /\ euid = [p \in Procs |-> "user"]
    /\ egid = "user"
    /\ original_uid = "None"
    /\ hg_euid = "None"
    /\ bundle_dir = FALSE
    /\ log = << >>
    /\ cmd_failed = FALSE
    /\ last_add = NoAdd

\* command.add_task(task, after, before)
AddTask ==
    /\ last_add.calls < MaxAdds
    /\ \E task \in AddedTasks, after \in Anchors, before \in Anchors :
        \E r \in {add_task(tasks, task, after, before)} :
          /\ tasks' = r.list
          /\ last_add' = [calls |-> last_add.calls + 1, list |-> "tasks",
                          task |-> task, after |-> after, before |-> before,
                          raised |-> r.raised]
    /\ UNCHANGED <<preliminary_tasks, cleanup_tasks, skipped_tasks,
                   dedicated_user, environment, is_root, launcher_supported,
                   config, pc, exc, is_child_process, euid, original_uid,
                   hg_euid, egid, bundle_dir, log, cmd_failed, feature_vars,
                   port_vars, config_vars, template_vars, indent_vars,
                   codec_vars, defaults_vars,
                   zeo_vars>>

\* command.add_preliminary_task(task, after, before)
AddPreliminaryTask ==
    /\ last_add.calls < MaxAdds
    /\ \E task \in AddedTasks, after \in Anchors, before \in Anchors :
        \E r \in {add_preliminary_task(preliminary_tasks, task, after, before)} :
          /\ preliminary_tasks' = r.list
          /\ last_add' = [calls |-> last_add.calls + 1,
                          list |-> "preliminary_tasks",
                          task |-> task, after |-> after, before |-> before,
                          raised |-> r.raised]
    /\ UNCHANGED <<tasks, cleanup_tasks, skipped_tasks,
                   dedicated_user, environment, is_root, launcher_supported,
                   config, pc, exc, is_child_process, euid, original_uid,
                   hg_euid, egid, bundle_dir, log, cmd_failed, feature_vars,
                   port_vars, config_vars, template_vars, indent_vars,
                   codec_vars, defaults_vars,
                   zeo_vars>>

TaskListNext == AddTask \/ AddPreliminaryTask

TaskListSpec == TaskListInit /\ [][TaskListNext]_vars

(***************************************************************************)
(* The specification of the ZEO subprocess: the tasks setup_database and   *)
(* copy_uploads, in the order of the task list, with every outcome of the  *)
(* commands they run.                                                      *)
(***************************************************************************)
ZeoTaskLists ==
    {<<"setup_database", "copy_uploads">>, <<"setup_database">>,
     <<"copy_uploads">>}

ZeoInit ==
    /\ OthersIdleForText
    /\ TemplatesIdle
    /\ IndentIdle
    /\ CodecIdle
    /\ DefaultsIdle
    /\ TaskListIdle
    /\ zeo_input \in [tasks : ZeoTaskLists, source_installation : BOOLEAN,
                      uploads_repository : BOOLEAN]
    /\ zeo_pc = ZeoTaskAt(1)
    /\ zeo_procs = << >>
    /\ zeo_exc = "none"

ZeoOthersUnchanged ==
    UNCHANGED <<pipeline_vars, feature_vars, port_vars, config_vars,
                template_vars, indent_vars, codec_vars, defaults_vars,
                tasklist_vars>>

\* the task is called: setup_database chooses copy_database or
\* init_database, copy_uploads tests self.source_installation
ZeoBeginTask ==
    /\ zeo_pc.at = "start"
    /\ zeo_pc' = IF BeforeZeo(ZeoTask) = "return"
                 THEN ZeoTaskAt(zeo_pc.idx + 1)
                 ELSE ZeoPlace(zeo_pc.idx, BeforeZeo(ZeoTask))
    /\ UNCHANGED <<zeo_input, zeo_procs, zeo_exc>>
    /\ ZeoOthersUnchanged

\* the rsync command of copy_database or of copy_uploads
ZeoRsync ==
    /\ zeo_pc.at = "rsync"
    /\ \E rc \in ReturnCodes :
        IF rc # 0
        THEN /\ zeo_exc' = "CalledProcessError"
             /\ zeo_pc' = ZeoPlace(zeo_pc.idx, "raised")
        ELSE /\ zeo_exc' = zeo_exc
             /\ zeo_pc' = ZeoPlace(zeo_pc.idx, "popen")
    /\ UNCHANGED <<zeo_input, zeo_procs>>
    /\ ZeoOthersUnchanged

\* the os.listdir / os.symlink loop of copy_uploads
ZeoSymlink ==
    /\ zeo_pc.at = "symlink"
    /\ \E failed \in BOOLEAN :
        IF failed
        THEN /\ zeo_exc' = "OSError"
             /\ zeo_pc' = ZeoPlace(zeo_pc.idx, "raised")
        ELSE /\ zeo_exc' = zeo_exc
             /\ zeo_pc' = ZeoPlace(zeo_pc.idx, "popen")
    /\ UNCHANGED <<zeo_input, zeo_procs>>
    /\ ZeoOthersUnchanged

\* zeo_proc = subprocess.Popen([...]): the subprocess is started, or Popen
\* raises OSError and there is no subprocess
Popen ==
    /\ zeo_pc.at = "popen"
    /\ \E started \in BOOLEAN :
        IF started
        THEN /\ zeo_procs' = Append(zeo_procs, [task |-> ZeoTask, kills |-> 0,
                                                running |-> TRUE,
                                                steps |-> 0])
             /\ zeo_exc' = zeo_exc
             /\ zeo_pc' = ZeoPlace(zeo_pc.idx, "yield")
        ELSE /\ zeo_procs' = zeo_procs
             /\ zeo_exc' = "OSError"
             /\ zeo_pc' = ZeoPlace(zeo_pc.idx, "raised")
    /\ UNCHANGED zeo_input
    /\ ZeoOthersUnchanged

\* the runzeo process ends by itself, for instance because its port is taken
ZeoExits ==
    /\ zeo_procs # << >>
    /\ zeo_procs[Len(zeo_procs)].running
    /\ zeo_procs[Len(zeo_procs)].kills = 0
    /\ zeo_procs' = [zeo_procs EXCEPT ![Len(zeo_procs)].running = FALSE]
    /\ UNCHANGED <<zeo_input, zeo_pc, zeo_exc>>
    /\ ZeoOthersUnchanged

\* the body of the with block: self._python(...) or
\* self.installer._exec(*init_command)
EnclosedStep ==
    /\ zeo_pc.at = "yield"
    /\ \E rc \in ReturnCodes :
        zeo_exc' = IF rc # 0 THEN "CalledProcessError" ELSE zeo_exc
    /\ zeo_procs' = [zeo_procs EXCEPT ![Len(zeo_procs)].steps = @ + 1]
    /\ zeo_pc' = ZeoPlace(zeo_pc.idx, "finally")
    /\ UNCHANGED zeo_input
    /\ ZeoOthersUnchanged

\* the end of the with block: zeo_proc.kill(), then the exception of the
\* enclosed step goes on, or the task returns
ZeoExitBlock ==
    /\ zeo_pc.at = "finally"
    /\ zeo_procs' =
          IF zeo_process_kills(zeo_exc # "none")
          THEN [zeo_procs EXCEPT ![Len(zeo_procs)].kills = @ + 1,
                                 ![Len(zeo_procs)].running = FALSE]
          ELSE zeo_procs
    /\ zeo_pc' = IF zeo_exc # "none" THEN ZeoPlace(zeo_pc.idx, "raised")
                 ELSE ZeoTaskAt(zeo_pc.idx + 1)
    /\ UNCHANGED <<zeo_input, zeo_exc>>
    /\ ZeoOthersUnchanged

ZeoNext ==
    \/ ZeoBeginTask
    \/ ZeoRsync
    \/ ZeoSymlink
    \/ Popen
    \/ ZeoExits
    \/ EnclosedStep
    \/ ZeoExitBlock

ZeoSpec == ZeoInit /\ [][ZeoNext]_vars

(***************************************************************************)
(* The specification of the pipeline with the real init_config: the        *)
(* preliminary task init_config derives the namespace from the parameters, *)
(* the environment and the port registry, and its outcome decides how the  *)
(* pipeline goes on.                                                       *)
(***************************************************************************)
\* the parameters init_config reads, after apply_environment_presets has
\* set the deployment schemes
NamespaceOf(n, c) ==
    [n EXCEPT !["deployment_scheme"] = c["deployment_scheme"],
              !["zodb_deployment_scheme"] = c["zodb_deployment_scheme"]]

DerivationNamespaces ==
    {[DefaultNamespace EXCEPT
        !["website"] = "a", !["dedicated_user"] = user,
        !["workspace"] = workspace] :
        user \in {"None", "u"}, workspace \in {"None", "/w"}}

DerivationEnvirons ==
    [WORKSPACE : {"None", "", "/e"},
     WOOST_ROOT_HOST : {"None"},
     apache_version : {<< >>, <<"2", "4", "41">>}]

DerivationInit ==
    /\ preliminary_tasks = InstallPreliminaryTasks
    /\ cleanup_tasks = InstallCleanupTasks
    /\ tasks \in {DefaultTasks, <<"install_libs">>}
    /\ skipped_tasks \in {{}, {"install_libs"}}
    /\ ns \in DerivationNamespaces
    /\ dedicated_user = ~Unset(ns.dedicated_user)
    /\ environment = "development"
    /\ config = DefaultConfig
    /\ is_root \in BOOLEAN
    /\ launcher_supported = FALSE
    /\ pc = [p \in Procs |-> IF p = "parent" THEN At("idle", 0, 0) ELSE NotStarted]
    /\ exc = [p \in Procs |-> NoExc]
    /\ is_child_process = [p \in Procs |-> FALSE]
    /\ euid = [p \in Procs |-> IF is_root THEN "root" ELSE "user"]
    /\ egid = IF is_root THEN "root" ELSE "user"
    /\ original_uid = "None"
    /\ hg_euid = "None"
    /\ bundle_dir = FALSE
    /\ log = << >>
    /\ cmd_failed = FALSE
    /\ FeaturesIdle
    /\ ports_file \in RegistryChoices
    /\ last_port = NoPortCall
    /\ environ \in DerivationEnvirons
    /\ last_init = NoInit
    /\ TextIdle

\* a preliminary task other than update_features and init_config
RunOtherPreliminaryTask(p) ==
    /\ pc[p].phase = "prelim"
    /\ preliminary_tasks[pc[p].idx] # "init_config"
    /\ RunPreliminaryTask(p)

\* the preliminary task init_config: sys.exit(1) and the other exceptions
\* of init_config take the control to the finally clause of __call__
RunInitConfig(p) ==
    /\ pc[p].phase = "prelim"
    /\ preliminary_tasks[pc[p].idx] = "init_config"
    /\ \E r \in {init_config(NamespaceOf(ns, config), environ, ports_file)} :
          /\ ns' = r.ns
          /\ ports_file' = r.file
          /\ last_init' = [runs |-> last_init.runs + 1, raised |-> r.raised,
                           before |-> NamespaceOf(ns, config),
                           file_before |-> ports_file]
          /\ IF r.raised = "none"
             THEN /\ pc' = [pc EXCEPT ![p] = PreliminaryAt(pc[p].idx + 1)]
                  /\ exc' = exc
             ELSE /\ pc' = [pc EXCEPT ![p] = RaiseTarget]
                  /\ exc' = [exc EXCEPT ![p] =
                               Raised(r.raised, "prelim", pc[p].idx, exc[p])]
    /\ log' = Append(log, LogEntry(p, "prelim", pc[p].idx, "init_config"))
    /\ UNCHANGED <<setup_vars, config, is_child_process, euid, egid,
                   original_uid, hg_euid, bundle_dir, cmd_failed,
                   feature_vars, last_port, environ, text_vars>>

DerivationNext ==
    \E p \in Procs :
        \/ Call(p)
        \/ RunUpdateFeatures(p)
        \/ RunOtherPreliminaryTask(p)
        \/ RunInitConfig(p)
        \/ SkipTask(p)
        \/ BeginTask(p)
        \/ Exec(p)
        \/ Local(p)
        \/ HgDirect(p)
        \/ HgFork(p)
        \/ HgChild(p)
        \/ HgWait(p)
        \/ Finally(p)
        \/ RunCleanupTask(p)

DerivationSpec == DerivationInit /\ [][DerivationNext]_vars

(***************************************************************************)
(* Properties of the step pipeline.                                        *)
(***************************************************************************)
\* the entries process p has logged for one phase, as list positions
PhaseLog(p, phase) ==
    LET entries == SelectSeq(log, LAMBDA e : e.proc = p /\ e.phase = phase)
    IN [k \in 1..Len(entries) |-> entries[k].idx]

\* the positions 1..n of the main task list that are not skipped, in order
NonSkipped(n) ==
    SelectSeq([j \in 1..n |-> j], LAMBDA j : tasks[j] \notin skipped_tasks)

Positions(list) == [j \in 1..Len(list) |-> j]

\* the position of the main task whose exception propagates out of the
\* parent's __call__ (0: none)
MainFailure ==
    IF exc["parent"].phase = "main" THEN exc["parent"].idx
    ELSE IF exc["parent"].ctx_phase = "main" THEN exc["parent"].ctx_idx
    ELSE 0

ParentDone == pc["parent"].phase = "done"

\* C1: when a main task raises in the parent process, the non-skipped main
\* tasks up to and including it have each run once in list order, no later
\* main task has run, and every cleanup task has run once, in list order, by
\* the time the exception leaves __call__.
C1_FailFastWithCleanup ==
    (ParentDone /\ MainFailure > 0) =>
        /\ PhaseLog("parent", "main") = NonSkipped(MainFailure)
        /\ PhaseLog("parent", "cleanup") = Positions(cleanup_tasks)

\* a run of the unbundle command with --skip-tasks in which the second or a
\* later main task raised and the exception has left __call__
C1_Witness ==
    /\ ParentDone
    /\ MainFailure > 1
    /\ Len(cleanup_tasks) = 2
    /\ skipped_tasks # {}

\* C2: in a run that ends without an exception the parent has executed all
\* preliminary tasks in list order, then the main tasks that are not in
\* skipped_tasks in list order, then all cleanup tasks in list order; a main
\* task is logged only after the preliminary phase and a cleanup task only
\* after the main phase.
C2_PhaseOrder ==
    /\ (ParentDone /\ exc["parent"] = NoExc) =>
          [k \in 1..Len(log) |-> <<log[k].phase, log[k].idx>>]
            = [k \in 1..Len(preliminary_tasks) |-> <<"prelim", k>>]
              \o [k \in 1..Len(NonSkipped(Len(tasks))) |->
                    <<"main", NonSkipped(Len(tasks))[k]>>]
              \o [k \in 1..Len(cleanup_tasks) |-> <<"cleanup", k>>]
    /\ PhaseLog("parent", "main") # << >> =>
          /\ pc["parent"].phase \in {"main", "finally", "cleanup", "done"}
          /\ Len(PhaseLog("parent", "prelim")) = Len(preliminary_tasks)
    /\ PhaseLog("parent", "cleanup") # << >> =>
          pc["parent"].phase \in {"cleanup", "done"}

\* a run without exception that skipped a main task, with the name of a
\* preliminary task or nothing else in skipped_tasks, has ended
C2_Witness ==
    /\ ParentDone
    /\ exc["parent"] = NoExc
    /\ \E j \in 1..Len(tasks) : tasks[j] \in skipped_tasks
    /\ Len(PhaseLog("parent", "cleanup")) = Len(cleanup_tasks)

\* a main task starts in the parent process in this step
MainTaskStarts ==
    /\ Len(log') = Len(log) + 1
    /\ log'[Len(log')].proc = "parent"
    /\ log'[Len(log')].phase = "main"

\* C3: once an external command issued for a pipeline task has returned
\* non-zero (in the parent or in the child forked by _hg), no later main
\* task starts in the parent process, and the cleanup tasks have run when
\* the parent leaves __call__.
C3_CommandFailureAborts ==
    /\ [][cmd_failed => ~MainTaskStarts]_vars
    /\ [](ParentDone /\ cmd_failed =>
            PhaseLog("parent", "cleanup") = Positions(cleanup_tasks))

\* C4: the process forked by _hg starts no task at all, neither a cleanup
\* task nor a later pipeline task, and once it has set _is_child_process it
\* only leaves __call__.
C4_ChildRunsNoTask ==
    /\ \A k \in 1..Len(log) : log[k].proc = "parent"
    /\ is_child_process["child"] =>
          pc["child"].phase \in {"finally", "done"}
    /\ ~is_child_process["parent"]

\* a child whose hg command succeeded has ended after an earlier external
\* command (of a child or of the parent) had failed
C4_Witness ==
    /\ pc["child"].phase = "done"
    /\ is_child_process["child"]
    /\ exc["child"].type = "SystemExit"
    /\ cmd_failed

(***************************************************************************)
(* Properties of the feature registry.                                     *)
(***************************************************************************)
\* the marker Feature.disable writes
DisabledMarker == File(<<"-", "1">>)

\* the step is one run of Feature.update through the feature command
UpdateStep == last_call' # last_call /\ last_call'.op = "update"

\* the step is one run of update_features
UpdateFeaturesStep == last_call' # last_call /\ last_call'.op = "update_features"

\* C5: a feature whose marker file holds the -1 written by disable() keeps
\* that marker through every Feature.update and every update_features run,
\* and install() is not invoked for it.
C5_DisablePrecedence ==
    [][\A f \in Features :
          version_file[f] = DisabledMarker =>
              /\ version_file'[f] = DisabledMarker
              /\ f \notin Range(last_call'.installs)]_vars

\* update_features has called update() on core3 while it was disabled
C5_Witness ==
    /\ last_call.op = "update_features"
    /\ "core3" \in Range(last_call.updates)
    /\ version_file["core3"] = DisabledMarker

\* how often x occurs in the sequence s
Count(x, s) == Cardinality({k \in 1..Len(s) : s[k] = x})

\* C6: a completed run of update_features has called update() exactly once
\* on every feature that is installed by default or required, and on no
\* other feature.
C6_EachFeatureOnce ==
    (last_call.op = "update_features" /\ ~last_call.raised) =>
        \A f \in Features :
            Count(f, last_call.updates) =
                IF installed_by_default(f) \/ f \in Range(last_call.required)
                THEN 1 ELSE 0

\* The integers whose decimal form can occur in a marker text of the model
\* ("1" is the only digit of MarkerChars), and the whitespace around them.
Ones(k) == (10 ^ k - 1) \div 9

LiteralValues ==
    {Ones(k) : k \in 1..(MaxMarkerLen + 1)}
    \cup {0 - Ones(k) : k \in 1..(MaxMarkerLen + 1)}

Blanks == {[j \in 1..k |-> "\n"] : k \in 0..(MaxMarkerLen + 1)}

\* the file holds the decimal form of n, possibly surrounded by whitespace
Holds(file, n) ==
    file.exists /\ \E a \in Blanks, b \in Blanks : file.text = a \o IntToStr(n) \o b

\* the version a marker file stands for: 0 when absent or unparsable
MarkerVersion(file) ==
    IF \E n \in LiteralValues : Holds(file, n)
    THEN CHOOSE n \in LiteralValues : Holds(file, n)
    ELSE 0

\* C7: Feature.update() on a feature with installed version v (0 for an
\* absent or unparsable marker) and class version V invokes install() exactly
\* when v # -1 and v < V, and then writes the marker V; when install() raises
\* or when nothing is to be done the marker file keeps its contents; the
\* marker files of the other features are never touched.
C7_UpdateTransition ==
    [][UpdateStep =>
        LET f == last_call'.feature
            v == MarkerVersion(version_file[f])
            V == FeatureVersion(f)
        IN /\ get_installed_version(version_file[f]) = v
           /\ IF v # -1 /\ v < V
              THEN /\ last_call'.installs = <<f>>
                   /\ IF last_call'.raised
                      THEN /\ last_call'.writes = << >>
                           /\ version_file'[f] = version_file[f]
                      ELSE /\ last_call'.writes = <<f>>
                           /\ version_file'[f] = File(IntToStr(V))
                           /\ get_installed_version(version_file'[f]) = V
              ELSE /\ last_call'.installs = << >>
                   /\ last_call'.writes = << >>
                   /\ ~last_call'.raised
                   /\ version_file'[f] = version_file[f]
           /\ \A g \in Features \ {f} : version_file'[g] = version_file[g]]_vars

\* `feature apache --update` has installed apache over an unparsable marker
C7_Witness ==
    /\ last_call.op = "update"
    /\ last_call.feature = "apache"
    /\ last_call.before.exists
    /\ ~ParseInt(last_call.before.text).ok
    /\ last_call.installs = <<"apache">>
    /\ version_file["apache"] = File(<<"1">>)

\* C8: `feature <id> --update` on a feature whose marker is -1 installs the
\* feature and replaces the marker by the current version, while a run of
\* update_features leaves every -1 marker in place.
C8_ExplicitUpdateEnables ==
    /\ [][(UpdateStep /\ last_call'.before = DisabledMarker) =>
            /\ last_call'.installs = <<last_call'.feature>>
            /\ (~last_call'.raised =>
                  version_file'[last_call'.feature] =
                      File(IntToStr(FeatureVersion(last_call'.feature))))]_vars
    /\ [][UpdateFeaturesStep =>
            \A f \in Features :
                version_file[f] = DisabledMarker =>
                    version_file'[f] = DisabledMarker]_vars

(***************************************************************************)
(* Properties of the port registry.                                        *)
(***************************************************************************)
\* the ports the registry of the model can hold
PortRange ==
    first_automatic_port..(first_automatic_port + MaxExplicitPorts + MaxPortKeys)

\* the line acquire_port writes for each key and port of the registry
EntryText == [key \in PortKeys, p \in PortRange |-> FormatEntry(key, p)]

\* line k of the file is the entry of key with port p
IsEntry(file, k, key, p) ==
    file.lines[k] = IF p \in PortRange THEN EntryText[key, p]
                    ELSE FormatEntry(key, p)

\* line j of the file is an entry of key, whatever its port
HasKey(file, j, key) ==
    /\ Len(file.lines[j]) > Len(key)
    /\ SubSeq(file.lines[j], 1, Len(key) + 1) = key \o <<" ">>

\* the registry stores port p for key: the first line of the key names p
Stores(file, key, p) ==
    /\ file.exists
    /\ \E k \in 1..Len(file.lines) :
          /\ IsEntry(file, k, key, p)
          /\ \A j \in 1..(k - 1) : ~HasKey(file, j, key)

\* the step is a call of acquire_port
AcquireStep == last_port' # last_port

\* C9: once the registry stores port p for key K, every call of
\* acquire_port leaves p stored for K, and a call for K, with or without an
\* explicit port, returns p and leaves the file as it is.
C9_PortStability ==
    [][\A key \in PortKeys, p \in PortRange :
          (AcquireStep /\ Stores(ports_file, key, p)) =>
              /\ Stores(ports_file', key, p)
              /\ last_port'.key = key =>
                    /\ ~last_port'.raised
                    /\ last_port'.result = p
                    /\ ports_file' = ports_file]_vars

\* a key was acquired again, with an explicit port that differs from the
\* stored one, after an entry of another key had been added behind it
C9_Witness ==
    \E key \in PortKeys, p \in PortRange :
        /\ Stores(last_port.before, key, p)
        /\ last_port.key = key
        /\ last_port.port # << >>
        /\ last_port.port # <<p>>
        /\ Len(last_port.before.lines) >= 2
        /\ IsEntry(last_port.before, 1, key, p)

\* C10: a call of acquire_port for a key that is not in the registry returns
\* a port that no entry of the registry holds, so no two entries of the
\* registry ever hold the same port.
C10_NoCollision ==
    /\ [][(AcquireStep /\ ~last_port'.raised
           /\ \A q \in PortRange : ~Stores(ports_file, last_port'.key, q)) =>
            \A k \in 1..Len(ports_file.lines), key \in PortKeys :
                ~IsEntry(ports_file, k, key, last_port'.result)]_vars
    /\ [](\A j, k \in 1..Len(ports_file.lines) :
            \A key1, key2 \in PortKeys, p \in PortRange :
                (j # k /\ IsEntry(ports_file, j, key1, p)
                 /\ IsEntry(ports_file, k, key2, p)) => FALSE)

\* the port of the last entry of the file, first_automatic_port for a file
\* without entries
LastPort(file) ==
    IF file.lines = << >> THEN first_automatic_port
    ELSE CHOOSE q \in PortRange :
            \E key \in PortKeys : IsEntry(file, Len(file.lines), key, q)

\* the key has no entry in the file
Absent(file, key) == \A j \in 1..Len(file.lines) : ~HasKey(file, j, key)

\* C11: a call of acquire_port without explicit port, for a key that has no
\* entry in an existing registry file, returns the port of the last entry
\* plus 1 and appends the one line "<key> <port>" behind the unchanged
\* earlier lines; no call on an existing file drops or changes a line of it.
C11_AllocationRule ==
    [][(AcquireStep /\ ports_file.exists) =>
          /\ SubSeq(ports_file'.lines, 1, Len(ports_file.lines))
                = ports_file.lines
          /\ (last_port'.port = << >> /\ Absent(ports_file, last_port'.key)) =>
                /\ ~last_port'.raised
                /\ last_port'.result = LastPort(ports_file) + 1
                /\ ports_file'.exists
                /\ ports_file'.lines
                      = Append(ports_file.lines,
                               EntryText[last_port'.key, last_port'.result])]_vars

\* a port was allocated for a new key in a file of two entries or more whose
\* last entry does not hold the largest port of the file
C11_Witness ==
    /\ last_port.before.exists
    /\ Len(last_port.before.lines) >= 2
    /\ last_port.port = << >>
    /\ Absent(last_port.before, last_port.key)
    /\ \E key \in PortKeys, q \in PortRange :
          /\ IsEntry(last_port.before, 1, key, q)
          /\ q > LastPort(last_port.before)
    /\ Len(ports_file.lines) = Len(last_port.before.lines) + 1

(***************************************************************************)
(* Properties of the derivation of the namespace.                          *)
(***************************************************************************)
\* the step is one run of init_config
InitStep == last_init'.runs = last_init.runs + 1

\* the namespace was derived by a run of init_config that ended normally
Derived == last_init.runs >= 1 /\ last_init.raised = "none"

\* C12: a run of init_config on a namespace that init_config has already
\* derived ends without error, leaves every field of the namespace as it
\* was after the first run and adds no entry to the port registry.
C12_DerivationIdempotent ==
    [][(InitStep /\ Derived) =>
          /\ last_init'.raised = "none"
          /\ ns' = ns
          /\ ports_file' = ports_file]_vars

\* the fields of the namespace that hold a string, and those that hold a port
StringFields ==
    {"website", "alias", "flat_website_alias", "dedicated_user", "workspace",
     "root_host", "vhost_name", "root_dir", "hostname", "deployment_scheme",
     "zodb_deployment_scheme", "app_server_hostname", "zeo_service_name",
     "apache_vhost_file", "terminal_profile", "launcher_tab_script",
     "launcher_dir"}

PortFields == {"port", "zeo_port", "cache_server_port"}

ListFields == {"empty_project_folders", "launcher_tabs"}

\* C13: a field that holds a value when init_config starts holds the same
\* value when init_config ends.
C13_SetFieldsKept ==
    [][InitStep =>
          /\ \A f \in StringFields : ~Unset(ns[f]) => ns'[f] = ns[f]
          /\ \A f \in PortFields : ns[f] # 0 => ns'[f] = ns[f]
          /\ \A f \in ListFields : ns[f] # << >> => ns'[f] = ns[f]
          /\ \A key \in SettingKeys :
                ns.terminal_profile_settings[key] # NoSetting =>
                    ns'.terminal_profile_settings[key]
                        = ns.terminal_profile_settings[key]
          /\ ns.app_server_host.hostname # "None" =>
                ns'.app_server_host = ns.app_server_host]_vars

\* the run of init_config recorded in last_init could determine a workspace
WorkspaceKnown ==
    \/ last_init.before.workspace # "None"
    \/ ~Unset(last_init.before.dedicated_user)
    \/ ~Unset(environ.WORKSPACE)

\* get_package_version("apache2") gave Apache 2.4
Apache24 ==
    /\ environ.apache_version # << >>
    /\ SubSeq(environ.apache_version, 1, 2) = <<"2", "4">>

\* C30: the first run of init_config, when it has a workspace, ends without
\* error when the deployment scheme is cherrypy, whatever
\* get_package_version("apache2") gives (Apache 2.4, another version, or None
\* for no Apache); with another scheme it ends by the diagnostic and
\* sys.exit(1) exactly when Apache is missing or is not Apache 2.4
C30_CherrypyWithoutApache ==
    [][(InitStep /\ last_init.runs = 0 /\ WorkspaceKnown') =>
          IF last_init'.before.deployment_scheme = "cherrypy"
          THEN last_init'.raised = "none"
          ELSE (last_init'.raised = "SystemExit") <=> ~Apache24]_vars

(***************************************************************************)
(* Properties of the environment presets.                                  *)
(***************************************************************************)
\* the step runs the preliminary task apply_environment_presets
PresetStep ==
    /\ Len(log') = Len(log) + 1
    /\ log'[Len(log')].task = "apply_environment_presets"

\* C14: apply_environment_presets has run before init_config runs; it gives
\* each field named by the preset of the selected environment the preset
\* value exactly when the field is None and leaves every other field alone.
C14_PresetsFillUnsetFields ==
    /\ [][PresetStep =>
            \A field \in DOMAIN config :
                config'[field] =
                    IF /\ field \in DOMAIN environments[environment]
                       /\ config[field] = "None"
                    THEN environments[environment][field]
                    ELSE config[field]]_vars
    /\ [](\A k \in 1..Len(log) :
            log[k].task = "init_config" =>
                \E j \in 1..(k - 1) :
                    /\ log[j].task = "apply_environment_presets"
                    /\ log[j].proc = log[k].proc)

\* init_config has run in the production environment on a command whose
\* deployment scheme was given on the command line
C14_Witness ==
    /\ \E k \in 1..Len(log) : log[k].task = "init_config"
    /\ environment = "production"
    /\ config.deployment_scheme = "cherrypy"
    /\ config.zodb_deployment_scheme = "zeo_service"
    /\ config.lets_encrypt = "False"

(***************************************************************************)
(* Properties of template expansion.                                       *)
(***************************************************************************)
\* the tokens of the text from position i on, as var_reg_expr finds them
RECURSIVE TokensFrom(_, _)
TokensFrom(text, i) ==
    IF i > Len(text) THEN << >>
    ELSE IF MatchEnd(text, i) = 0 THEN TokensFrom(text, i + 1)
    ELSE <<[token |-> SubSeq(text, i, MatchEnd(text, i) - 1),
            key |-> MatchKey(text, i, MatchEnd(text, i))]>>
         \o TokensFrom(text, MatchEnd(text, i))

Tokens(text) == TokensFrom(text, 1)

\* the token names no attribute, or one that is None
Unresolved(tok) == GetAttr(fields, tok.key).kind \in {"missing", "None"}

\* the text with each token replaced by the string of its attribute
RECURSIVE Replaced(_, _)
Replaced(text, i) ==
    IF i > Len(text) THEN << >>
    ELSE IF MatchEnd(text, i) = 0 THEN <<text[i]>> \o Replaced(text, i + 1)
    ELSE GetAttr(fields, MatchKey(text, i, MatchEnd(text, i))).text
         \o Replaced(text, MatchEnd(text, i))

\* C15: expand_vars fails exactly when a token of its input names an
\* attribute that is undefined or None; it then produces no text and the
\* error names such a token.  Otherwise the output is the input with every
\* token replaced by the string of the attribute key.lower().
C15_UndefinedVariable ==
    expansion.calls = 1 =>
        LET toks == Tokens(expansion.input)
            bad == {k \in 1..Len(toks) : Unresolved(toks[k])}
        IN /\ expansion.raised <=> bad # {}
           /\ expansion.raised =>
                 /\ expansion.text = << >>
                 /\ \E k \in bad : expansion.token = toks[k].token
           /\ ~expansion.raised =>
                 expansion.text = Replaced(expansion.input, 1)

\* every token of the template resolves
AllResolve == \A k \in 1..Len(Tokens(template)) : ~Unresolved(Tokens(template)[k])

\* C16: when all tokens of the template resolve, the output of expand_vars
\* holds no token, and expand_vars applied to the output returns it as it
\* is.
C16_ExpansionRoundTrip ==
    AllResolve =>
        /\ expansion.calls = 1 =>
              ~expansion.raised /\ Tokens(expansion.text) = << >>
        /\ expansion.calls = 2 =>
              ~expansion.raised /\ expansion.text = expansion.input

(***************************************************************************)
(* Properties of normalize_indent.                                         *)
(***************************************************************************)
\* the line holds something else than whitespace
NonBlank(line) == LStrip(line) # << >>

\* the leading whitespace of the line
LeadingSpace(line) == SubSeq(line, 1, Len(line) - Len(LStrip(line)))

\* "\n    line1\n    line2\n" and "line1\nline2"
ExampleInput ==
    JoinLines(<< << >>,
                 <<" ", " ", " ", " ", "l", "i", "n", "e", "1">>,
                 <<" ", " ", " ", " ", "l", "i", "n", "e", "2">>,
                 << >> >>)

ExampleOutput ==
    JoinLines(<< <<"l", "i", "n", "e", "1">>, <<"l", "i", "n", "e", "2">> >>)

\* the non-blank lines of the string
ContentLines(string) == SelectSeq(SplitLines(string), NonBlank)

\* the string has non-blank lines and they all start with the same whitespace
SharedIndent(string) ==
    /\ ContentLines(string) # << >>
    /\ \A k \in 1..Len(ContentLines(string)) :
          LeadingSpace(ContentLines(string)[k])
              = LeadingSpace(ContentLines(string)[1])

\* C17: normalize_indent("\n    line1\n    line2\n") is "line1\nline2", and
\* for a string whose non-blank lines share one indentation the result is
\* those lines without the indentation (and without trailing whitespace),
\* joined by single newlines, with no newline before or after them.
C17_StripsSharedIndent ==
    indent_result.called =>
        /\ indent_input = ExampleInput => indent_result.string = ExampleOutput
        /\ SharedIndent(indent_input) =>
              indent_result.string
                  = JoinLines([k \in 1..Len(ContentLines(indent_input)) |->
                                 LStrip(RStrip(ContentLines(indent_input)[k]))])

\* the position of the first non-blank line of the lines, 0 when there is none
FirstContent(lines) ==
    IF \E k \in 1..Len(lines) : NonBlank(lines[k])
    THEN CHOOSE k \in 1..Len(lines) :
            NonBlank(lines[k]) /\ \A j \in 1..(k - 1) : ~NonBlank(lines[j])
    ELSE 0

\* C18: the indentation is the leading whitespace of the first non-blank
\* line; that line is returned without it, every later line that starts
\* with it loses it, and every other later line is returned as it is; all
\* lines lose their trailing whitespace.
C18_IndentOfFirstLine ==
    (indent_result.called /\ FirstContent(SplitLines(indent_input)) > 0) =>
        LET lines == SplitLines(indent_input)
            first == FirstContent(lines)
            indent == LeadingSpace(RStrip(lines[first]))
            out == SplitLines(indent_result.string)
        IN /\ Len(out) = Len(lines) - first + 1
           /\ \A k \in first..Len(lines) :
                 out[k - first + 1] =
                    IF StartsWith(RStrip(lines[k]), indent)
                    THEN SubSeq(RStrip(lines[k]), Len(indent) + 1,
                                Len(RStrip(lines[k])))
                    ELSE RStrip(lines[k])

\* C19: BundleCommand.chunk_size is a multiple of 3, UnbundleCommand.chunk_size
\* is a multiple of 4, and the bytes extract_bundle_data writes are the bytes
\* of the tar file that was bundled, with no decoding error
C19_BundleRoundTrip ==
    /\ BundleChunkSize % 3 = 0
    /\ UnbundleChunkSize % 4 = 0
    /\ website_tar.step = "extracted"
         => /\ ~website_tar.raised
            /\ website_tar.bytes = bundle_tar

\* a tar file of more than one chunk whose last chunk is padded came back
C19_Witness ==
    /\ website_tar.step = "extracted"
    /\ Len(bundle_tar) > BundleChunkSize
    /\ Len(bundle_tar) % 3 # 0
    /\ Len(BUNDLE_DATA) > UnbundleChunkSize
    /\ BUNDLE_DATA[Len(BUNDLE_DATA)] = Pad
    /\ website_tar.bytes = bundle_tar

\* C20: when the generated file has parsed its command line, every parameter
\* that was written as "installer.unbundle.P = value" has the value given on
\* the command line if its flag was passed, and the written value otherwise
C20_PrefilledDefaults ==
    bundle_step = "parsed"
      => \A key \in DOMAIN bundle_defaults :
            unbundle_attrs[key] = IF key \in DOMAIN unbundle_argv
                            THEN unbundle_argv[key]
                            ELSE bundle_defaults[key]

\* the value of a parameter that the bundled file fixes: the written default,
\* or the class attribute of the unbundle command
FixedInBundle(key) ==
    IF key \in DOMAIN bundle_defaults THEN bundle_defaults[key]
    ELSE UnbundleAttributes[key]

\* C21: the generated file accepts neither --tasks nor --recreate-env, so
\* after it has parsed its command line tasks and recreate_env have the
\* values fixed in the bundled file
C21_DisabledInBundledFile ==
    bundle_step = "parsed"
      => \A key \in {"tasks", "recreate_env"} :
            /\ key \notin DOMAIN unbundle_argv
            /\ unbundle_attrs[key] = FixedInBundle(key)

\* the parameters that are never exported
NeverExported == {"command", "output_file", "source_installation"}

\* C22: bundle_defaults holds none of command, output_file and
\* source_installation, holds every other argument that was given with the
\* value given, and besides those only the compression the bundle command
\* defaults to
C22_ExportedDefaults ==
    bundle_step # "none"
      => /\ DOMAIN bundle_defaults \cap NeverExported = {}
         /\ \A key \in DOMAIN bundle_argv \ NeverExported :
               /\ key \in DOMAIN bundle_defaults
               /\ bundle_defaults[key] = bundle_argv[key]
         /\ \A key \in DOMAIN bundle_defaults \ DOMAIN bundle_argv :
               key = "compression" /\ bundle_defaults[key] = "bz2"

\* a bundle made with an output file and --skip-database but no revision
C22_Witness ==
    /\ bundle_step = "collected"
    /\ "output_file" \in DOMAIN bundle_argv
    /\ "skip_database" \in DOMAIN bundle_defaults
    /\ bundle_defaults["website"] = "W"
    /\ "revision" \notin DOMAIN bundle_defaults

\* the command is the unbundle command
IsUnbundle == Len(cleanup_tasks) = Len(UnbundleCleanupTasks)

\* C23: when the unbundle command has ended in the parent process the
\* directory of the extracted bundle does not exist, and an exception that
\* leaves __call__ was raised by a preliminary or main task, not by the
\* cleanup
C23_TempDirDeleted ==
    (ParentDone /\ IsUnbundle) =>
        /\ ~bundle_dir
        /\ exc["parent"].phase # "cleanup"

(***************************************************************************)
(* Properties of the task lists.                                           *)
(***************************************************************************)
\* the step is a call of add_task or add_preliminary_task
AddStep == last_add'.calls = last_add.calls + 1

\* the list the call of this step works on, before and after the call
ListBefore ==
    IF last_add'.list = "tasks" THEN tasks ELSE preliminary_tasks

ListAfter ==
    IF last_add'.list = "tasks" THEN tasks' ELSE preliminary_tasks'

\* an anchor is given when the argument is neither None nor empty
Given(anchor) == anchor \notin {"None", ""}

\* the call of this step must fail: no anchor, two anchors, or an anchor that
\* is not in the list
MustFail ==
    \/ ~Given(last_add'.after) /\ ~Given(last_add'.before)
    \/ Given(last_add'.after) /\ Given(last_add'.before)
    \/ Given(last_add'.after) /\ last_add'.after \notin Range(ListBefore)
    \/ Given(last_add'.before) /\ last_add'.before \notin Range(ListBefore)

\* new is old with task put in so that position k of old comes right before it
InsertedAfter(old, new, k, task) ==
    new = SubSeq(old, 1, k) \o <<task>> \o SubSeq(old, k + 1, Len(old))

\* C24: a call of add_task or add_preliminary_task with no anchor, two
\* anchors or an anchor that is not in the list raises and leaves the list
\* as it was; any other call puts the task right after the `after` anchor or
\* right before the `before` anchor and keeps the other entries in order. The
\* other list is never touched.
C24_AddTaskContract ==
    [][AddStep =>
        /\ IF MustFail
           THEN last_add'.raised # "none" /\ ListAfter = ListBefore
           ELSE /\ last_add'.raised = "none"
                /\ \E k \in 1..Len(ListBefore) :
                      IF Given(last_add'.after)
                      THEN /\ ListBefore[k] = last_add'.after
                           /\ InsertedAfter(ListBefore, ListAfter, k,
                                            last_add'.task)
                      ELSE /\ ListBefore[k] = last_add'.before
                           /\ InsertedAfter(ListBefore, ListAfter, k - 1,
                                            last_add'.task)
        /\ last_add'.list = "tasks" => preliminary_tasks' = preliminary_tasks
        /\ last_add'.list # "tasks" => tasks' = tasks]_vars

\* the last of the calls has put a new task right after a main task that is
\* not the last one
C24_Witness ==
    /\ last_add.calls = MaxAdds
    /\ last_add.list = "tasks"
    /\ last_add.raised = "none"
    /\ last_add.after = "install_libs"
    /\ last_add.task = "new_task"
    /\ Len(tasks) = Len(DefaultTasks) + 1
    /\ tasks[Index(tasks, "install_libs") + 1] = "new_task"

\* the names of a list are pairwise different
Unique(list) ==
    \A j, k \in 1..Len(list) : list[j] = list[k] => j = k

\* C25: no task name occurs more than once in tasks, and none more than once
\* in preliminary_tasks, whatever add_task and add_preliminary_task calls
\* were made
C25_TaskNamesUnique == Unique(tasks) /\ Unique(preliminary_tasks)

(***************************************************************************)
(* Properties of the user identity.                                        *)
(***************************************************************************)
\* the identity the process is started with
StartIdentity == IF is_root THEN "root" ELSE "user"

\* restore_original_user has run in the parent process
Restored ==
    \E k \in 1..Len(log) :
        log[k].phase = "cleanup" /\ log[k].task = "restore_original_user"

\* C26: with a dedicated user every main task of the parent starts with the
\* effective uid and gid of the dedicated user, and once the cleanup task
\* restore_original_user has run the effective uid and the effective gid are
\* those the process had before become_dedicated_user
C26_IdentityRestored ==
    /\ [][(dedicated_user /\ MainTaskStarts) =>
             euid["parent"] = "dedicated" /\ egid = "dedicated"]_vars
    /\ []((dedicated_user /\ Restored) =>
             euid["parent"] = StartIdentity /\ egid = StartIdentity)

(***************************************************************************)
(* Properties of _hg with a dedicated user.                                *)
(***************************************************************************)
\* the parent process is inside _hg, between os.fork() and os.seteuid(euid)
InHg == pc["parent"].hg = "wait"

\* the child process forked by _hg exists and has not ended
ChildRunning == pc["child"].phase \notin {"none", "done"}

\* the parent process is about to call _hg
CallsHg ==
    /\ dedicated_user
    /\ pc["parent"].phase = "main"
    /\ pc["parent"].op > 0
    /\ pc["parent"].hg = "none"
    /\ TaskOps(tasks[pc["parent"].idx])[pc["parent"].op] = "hg"

\* C28: with a dedicated user a call of _hg forks one child process, there is
\* never a child outside of a call of _hg, the parent process takes no step
\* of the pipeline while the child has not ended, and when _hg returns the
\* effective uid of the parent is again the one of the dedicated user
C28_ForkEscapeHatch ==
    /\ [](pc["child"].phase # "none" => InHg)
    /\ [][(CallsHg /\ pc'["parent"] # pc["parent"]) =>
             (pc["child"].phase = "none" /\ ChildRunning' /\ InHg')]_vars
    /\ [][(InHg /\ ~(pc["child"].phase = "done")) =>
             (pc'["parent"] = pc["parent"] /\ log' = log
                /\ euid'["parent"] = euid["parent"])]_vars
    /\ [][(InHg /\ ~InHg') =>
             (pc["child"].phase = "done"
                /\ euid'["parent"] = "dedicated"
                /\ euid'["parent"] = hg_euid)]_vars

\* the parent process has returned from a call of _hg that forked, and goes
\* on with the next command of the same task
C28_Witness ==
    /\ dedicated_user
    /\ pc["parent"].phase = "main"
    /\ pc["parent"].op > 1
    /\ pc["parent"].hg = "none"
    /\ TaskOps(tasks[pc["parent"].idx])[pc["parent"].op - 1] = "hg"
    /\ pc["child"].phase = "none"
    /\ euid["parent"] = "dedicated"
    /\ cmd_failed

(***************************************************************************)
(* Properties of the ZEO subprocess.                                       *)
(***************************************************************************)
\* the code is inside the with block of zeo_process
InZeoProcess == zeo_pc.at \in {"yield", "finally"}

\* C29: the enclosed step of a task runs with the ZEO subprocess of that
\* task started and not yet killed, kill() is called once on every ZEO
\* subprocess when the enclosed step has ended, by a return or by an
\* exception, and outside of the with block (at the end of the task, at the
\* start of the next one, after an exception) every ZEO subprocess that was
\* started has been killed
C29_ZeoProcessScoped ==
    /\ [](\A k \in 1..Len(zeo_procs) :
            /\ zeo_procs[k].kills <= 1
            /\ zeo_procs[k].steps <= 1
            /\ (zeo_procs[k].kills = 0) =>
                  (k = Len(zeo_procs) /\ InZeoProcess
                     /\ zeo_procs[k].task = ZeoTask)
            /\ (zeo_procs[k].kills = 1) =>
                  (zeo_procs[k].steps = 1 /\ ~zeo_procs[k].running))
    /\ [](InZeoProcess =>
            (zeo_procs # << >>
               /\ zeo_procs[Len(zeo_procs)].kills = 0
               /\ zeo_procs[Len(zeo_procs)].steps =
                     (IF zeo_pc.at = "yield" THEN 0 ELSE 1)))

\* both tasks have started a ZEO subprocess, the enclosed step of the second
\* one has raised, and both subprocesses have been killed
C29_Witness ==
    /\ Len(zeo_procs) = 2
    /\ zeo_pc.at = "raised"
    /\ zeo_exc = "CalledProcessError"
    /\ zeo_procs[1].task = "setup_database"
    /\ zeo_procs[2].task = "copy_uploads"
    /\ \A k \in 1..2 : zeo_procs[k].kills = 1 /\ zeo_procs[k].steps = 1

(***************************************************************************)
(* Properties of the pipeline with the real init_config.                   *)
(***************************************************************************)
\* init_config has run without a workspace parameter, without a dedicated
\* user and with WORKSPACE absent from the environment or empty
NoWorkspace ==
    /\ last_init.runs >= 1
    /\ last_init.before.workspace = "None"
    /\ ~dedicated_user
    /\ Unset(last_init.before.dedicated_user)
    /\ Unset(environ.WORKSPACE)

\* the entries of the task log for main tasks, of any process
MainLog == SelectSeq(log, LAMBDA e : e.phase = "main")

\* C27: when the workspace parameter is not given, there is no dedicated
\* user and WORKSPACE is absent or empty, init_config ends by sys.exit(1),
\* no port is acquired (the port registry and the port fields are as they
\* were), no main task is executed, and the cleanup tasks have all run when
\* the command has ended
C27_NoWorkspaceHardStop ==
    [](NoWorkspace =>
          /\ last_init.raised = "SystemExit"
          /\ ports_file = last_init.file_before
          /\ \A f \in {"port", "zeo_port", "cache_server_port"} :
                ns[f] = last_init.before[f]
          /\ MainLog = << >>
          /\ pc["parent"].phase \in {"finally", "cleanup", "done"}
          /\ ParentDone =>
                /\ PhaseLog("parent", "cleanup") = Positions(cleanup_tasks)
                /\ exc["parent"].type = "SystemExit")

\* the command has ended after init_config stopped it for an empty WORKSPACE
C27_Witness ==
    /\ NoWorkspace
    /\ environ.WORKSPACE = ""
    /\ ParentDone
    /\ last_init.raised = "SystemExit"
    /\ PhaseLog("parent", "cleanup") = Positions(cleanup_tasks)
=============================================================================
